---- MODULE Spec2Model ----
(***************************************************************************)
(* State-machine model of the floorplan editor of sustainX                 *)
(* (frontend/src/components/FloorplanEditor/FloorplanEditor.jsx) and of    *)
(* the page that hosts it (pages/EditorPage).                              *)
(*                                                                         *)
(* Numbers.  JavaScript numbers are modelled in fixed point.  Lengths and  *)
(* coordinates are integers counting tenths of a foot, so the editor's     *)
(* thresholds (0.5 ft, 0.3 ft, 15 px at 15 px/ft) are all whole numbers.   *)
(* An area in square feet is kept as the absolute shoelace sum, i.e. in    *)
(* units of 1/200 ft^2 (a 10 ft x 10 ft square is 20000).  An area in      *)
(* square metres is kept in hundredths (what toFixed(2) produces).         *)
(* Math.sqrt is evaluated exactly and its result is rounded to the grid    *)
(* when it is stored in a coordinate.  Math.cos and Math.sin of the        *)
(* multiples of 90 degrees are -1, 0, 1 on the grid; where Math.cos(pi/2)  *)
(* and Math.sin(pi) are 6.1e-17 and 1.2e-16 instead of 0, the snap helpers *)
(* carry the sign of what that leaves in the coordinate (epsX, epsY); the  *)
(* wall coordinates written by a drag hold the grid value only.            *)
(*                                                                         *)
(* Rendering.  The handlers of a render close over the floorplan prop and  *)
(* the dragging state of that render.  React renders again synchronously   *)
(* after a discrete event (click, change, mousedown, mouseup) and in a     *)
(* later task after a continuous one (mousemove, mouseleave), so a handler *)
(* may run before the render that follows a continuous event.              *)
(*                                                                         *)
(* Absent sequences.  A floorplan object may lack the keys walls, windows  *)
(* or doors (the code writes floorplan.walls || [] in several places).     *)
(* The field absent holds the missing keys; a missing sequence is stored   *)
(* as <<>> and must be read through Has.                                   *)
(***************************************************************************)
EXTENDS Integers, Sequences, FiniteSets, TLC

VARIABLES
  floorplan,      \* the floorplan prop of the last render
  pageFloorplan,  \* the floorplan state of EditorPage (last setFloorplan)
  selectedWall,   \* useState selectedWall (0 = null)
  dragging,       \* the dragging state of the last render (NoDrag = null)
  draggingState,  \* useState dragging (last setDragging)
  roomClosed,     \* isRoomClosed() evaluated by the last render
  floorAreaSqFt,  \* calculateFloorArea() evaluated by the last render
  lastOp,         \* the handler that ran last, with its arguments
  prevFloorplan,  \* the floorplan prop that handler read
  prevPage,       \* the floorplan state of EditorPage when it was called
  passedIn,       \* that floorplan object as it reads after the handler
  returned,       \* what the last call of a snap helper returned
  emitted,        \* how many times that handler called onChange
  threw,          \* whether that handler ended with a TypeError
  steps,          \* handlers run since the floorplan was loaded
  trace,          \* the locals of a call of calculateFloorArea in progress
  currentProject, \* projectStore: currentProject
  requests,       \* the PUT requests of updateProject, in the order issued
  currentJob,     \* simulationStore: currentJob
  currentResult,  \* simulationStore: currentResult
  isPolling,      \* simulationStore: isPolling
  loops,          \* the calls of pollJobStatus: where each poll closure is
  user,           \* authStore: user
  isAuthenticated, \* authStore: isAuthenticated
  isLoading,      \* authStore: isLoading
  localStorage,   \* localStorage.getItem('token')
  authCalls       \* the calls made on authStore: where each one is

\* the state of the editor and what the model records of its last handler
editorVars ==
  <<floorplan, pageFloorplan, selectedWall, dragging, draggingState,
    roomClosed, floorAreaSqFt, lastOp, prevFloorplan, prevPage, passedIn,
    returned, emitted, threw, steps>>

\* what the handlers of the editor leave alone
outsideHandlers ==
  <<trace, currentProject, requests, currentJob, currentResult, isPolling,
    loops, user, isAuthenticated, isLoading, localStorage, authCalls>>

\* the state of simulationStore and of its polling loops
pollVars == <<currentJob, currentResult, isPolling, loops>>

\* the state of authStore, the stored token and the calls in progress
authVars == <<user, isAuthenticated, isLoading, localStorage, authCalls>>

vars == <<floorplan, pageFloorplan, selectedWall, dragging, draggingState,
          roomClosed, floorAreaSqFt, lastOp, prevFloorplan, prevPage,
          passedIn, returned, emitted, threw, steps, trace, currentProject,
          requests, currentJob, currentResult, isPolling, loops, user,
          isAuthenticated, isLoading, localStorage, authCalls>>

----------------------------------------------------------------------------
(* Bounds of the model *)

\* Mutation API calls made on one loaded floorplan
MaxOps == 2
\* pointer events handled on one loaded floorplan
MaxPointerEvents == 3
\* ids are drawn from 1 .. MaxId
MaxId == 2
\* longest enumerated wall sequence given to the geometry functions
MaxGeomWalls == 3
\* calls of the snap helpers on one floorplan
MaxSnapCalls == 2

----------------------------------------------------------------------------
(* Program constants, in the units explained above *)

SNAP_DISTANCE == 15
SCALE == 15
TOLERANCE == 5
MIN_SNAP_LENGTH == 5
FEET_TO_METERS_NUM == 381
FEET_TO_METERS_DEN == 1250
\* tan(10 degrees) = 0.17632698..., as TAN10_NUM / TAN10_DEN
TAN10_NUM == 176327
TAN10_DEN == 1000000
AXIS_SNAP_THRESHOLD == 3
\* Math.cos(90 * (Math.PI / 180)) = 6.123233995736766e-17 and
\* Math.sin(180 * (Math.PI / 180)) = 1.2246467991473532e-16: their products
\* with 2^53, squared, as COS90_SQ_NUM / TRIG_SQ_DEN and
\* SIN180_SQ_NUM / TRIG_SQ_DEN
COS90_SQ_NUM == 304187
SIN180_SQ_NUM == 1216750
TRIG_SQ_DEN == 1000000

----------------------------------------------------------------------------
(* Arithmetic *)

Abs(x) == IF x < 0 THEN -x ELSE x

Min(a, b) == IF a < b THEN a ELSE b

RECURSIVE ISqrtBetween(_, _, _)
ISqrtBetween(n, lo, hi) ==
  IF lo >= hi THEN lo
  ELSE LET mid == (lo + hi + 1) \div 2
       IN  IF mid * mid <= n THEN ISqrtBetween(n, mid, hi)
                             ELSE ISqrtBetween(n, lo, mid - 1)

\* floor(sqrt(n))
ISqrt(n) == ISqrtBetween(n, 0, Min(n, 46340))

\* Math.sqrt(n) rounded to the nearest grid value
RoundSqrt(n) == (ISqrt(4 * n) + 1) \div 2

\* a / b rounded to the nearest integer, halves away from zero (b > 0)
RoundDiv(a, b) ==
  IF a >= 0 THEN (2 * a + b) \div (2 * b)
            ELSE -((2 * (-a) + b) \div (2 * b))

\* p1 / q1 <= p2 / q2 for positive integers, without multiplying
RECURSIVE FracLeq(_, _, _, _)
FracLeq(p1, q1, p2, q2) ==
  LET i1 == p1 \div q1
      i2 == p2 \div q2
      r1 == p1 % q1
      r2 == p2 % q2
  IN  IF i1 # i2 THEN i1 < i2
      ELSE IF r1 = 0 THEN TRUE
      ELSE IF r2 = 0 THEN FALSE
      ELSE FracLeq(q2, r2, q1, r1)

\* a * b <= c * d for naturals, safe against 32-bit overflow
MulLeq(a, b, c, d) ==
  IF a = 0 \/ b = 0 THEN TRUE
  ELSE IF c = 0 \/ d = 0 THEN FALSE
  ELSE FracLeq(a, c, d, b)

\* largest f in lo .. hi with f * sqrt(n) <= q (lo satisfies it)
RECURSIVE FloorQuotBetween(_, _, _, _)
FloorQuotBetween(q, n, lo, hi) ==
  IF lo >= hi THEN lo
  ELSE LET mid == (lo + hi + 1) \div 2
       IN  IF MulLeq(mid * mid, n, q, q) THEN FloorQuotBetween(q, n, mid, hi)
                                        ELSE FloorQuotBetween(q, n, lo, mid - 1)

\* q / Math.sqrt(n) rounded to the nearest grid value (q >= 0, n > 0)
RoundQuotSqrt(q, n) ==
  LET s == ISqrt(n)
  IN  IF s * s = n THEN RoundDiv(q, s)
      ELSE LET f == FloorQuotBetween(q, n, 0, q \div s)
           IN  IF MulLeq((2 * f + 1) * (2 * f + 1), n, 2 * q, 2 * q)
               THEN f + 1 ELSE f


----------------------------------------------------------------------------
(* Topology Validator and Area Calculator *)

Pt(px, py) == [x |-> px, y |-> py]

StartOf(w) == Pt(w.x1, w.y1)

EndOf(w) == Pt(w.x2, w.y2)

\* Math.abs(a.x - b.x) < tolerance && Math.abs(a.y - b.y) < tolerance
Near(a, b) == Abs(a.x - b.x) < TOLERANCE /\ Abs(a.y - b.y) < TOLERANCE

Has(fp, key) == key \notin fp.absent

\* floorplan.walls || []
WallsOf(fp) == IF Has(fp, "walls") THEN fp.walls ELSE <<>>

\* the endpoints array built by isRoomClosed: two entries per wall, in order
Endpoints(walls) ==
  [k \in 1 .. 2 * Len(walls) |->
     LET w == walls[(k + 1) \div 2]
     IN  IF k % 2 = 1
         THEN [x |-> w.x1, y |-> w.y1, wallId |-> w.id, type |-> "start"]
         ELSE [x |-> w.x2, y |-> w.y2, wallId |-> w.id, type |-> "end"]]

\* mutant: an endpoint may be connected to an endpoint of its own wall
isRoomClosed_SameWall(fp) ==
  LET walls == WallsOf(fp)
      endpoints == Endpoints(walls)
      connected(ep) == \E k \in 1 .. Len(endpoints) : Near(endpoints[k], ep)
      unconnected ==
        Cardinality({k \in 1 .. Len(endpoints) : ~connected(endpoints[k])})
  IN  IF Len(walls) < 3 THEN FALSE ELSE unconnected = 0

isRoomClosed(fp) ==
  LET walls == WallsOf(fp)
      endpoints == Endpoints(walls)
      connected(ep) ==
        \E k \in 1 .. Len(endpoints) :
           /\ endpoints[k].wallId # ep.wallId
           /\ Near(endpoints[k], ep)
      unconnected ==
        Cardinality({k \in 1 .. Len(endpoints) : ~connected(endpoints[k])})
  IN  IF Len(walls) < 3 THEN FALSE ELSE unconnected = 0

\* mutant: a wall is found only when its start lies near the point
NextWallIndex_StartOnly(walls, usedWalls, point) ==
  LET cand == {i \in 1 .. Len(walls) :
                 /\ walls[i].id \notin usedWalls
                 /\ Near(StartOf(walls[i]), point)}
  IN  IF cand = {} THEN 0
      ELSE CHOOSE i \in cand : \A j \in cand : i <= j

\* walls.find(...) of the trace: index of the first unused wall with an
\* endpoint near the point, 0 when there is none
NextWallIndex(walls, usedWalls, point) ==
  LET cand == {i \in 1 .. Len(walls) :
                 /\ walls[i].id \notin usedWalls
                 /\ (Near(StartOf(walls[i]), point) \/ Near(EndOf(walls[i]), point))}
  IN  IF cand = {} THEN 0
      ELSE CHOOSE i \in cand : \A j \in cand : i <= j

\* the while loop of calculateFloorArea; returns the vertices collected
RECURSIVE TraceWalls(_, _, _, _)
TraceWalls(walls, usedWalls, nextPoint, vertices) ==
  IF Cardinality(usedWalls) >= Len(walls) THEN vertices
  ELSE LET pushed == Append(vertices, nextPoint)
           i == NextWallIndex(walls, usedWalls, nextPoint)
       IN  IF i = 0 THEN pushed
           ELSE TraceWalls(walls, usedWalls \cup {walls[i].id},
                           IF Near(StartOf(walls[i]), nextPoint)
                           THEN EndOf(walls[i]) ELSE StartOf(walls[i]),
                           pushed)

RECURSIVE ShoelaceSum(_, _)
ShoelaceSum(vertices, i) ==
  IF i > Len(vertices) THEN 0
  ELSE LET j == (i % Len(vertices)) + 1
       IN  vertices[i].x * vertices[j].y - vertices[j].x * vertices[i].y
           + ShoelaceSum(vertices, i + 1)

\* vertices of the traced polygon (empty when the early returns are taken)
TracedVertices(fp) ==
  LET walls == WallsOf(fp)
  IN  IF Len(walls) < 3 \/ ~isRoomClosed(fp) THEN <<>>
      ELSE TraceWalls(walls, {walls[1].id}, EndOf(walls[1]), <<StartOf(walls[1])>>)

\* the area in units of 1/200 ft^2 (Math.abs(area) before the division by 2)
\* mutant: the walls are traced without asking isRoomClosed
calculateFloorArea_Unchecked(fp) ==
  LET walls == WallsOf(fp)
      vertices == TraceWalls(walls, {walls[1].id}, EndOf(walls[1]),
                             <<StartOf(walls[1])>>)
  IN  IF Len(walls) < 3 THEN 0
      ELSE IF Len(vertices) < 3 THEN 0
      ELSE Abs(ShoelaceSum(vertices, 1))

calculateFloorArea(fp) ==
  LET walls == WallsOf(fp)
      vertices == TracedVertices(fp)
  IN  IF Len(walls) < 3 THEN 0
      ELSE IF ~isRoomClosed(fp) THEN 0
      ELSE IF Len(vertices) < 3 THEN 0
      ELSE Abs(ShoelaceSum(vertices, 1))

\* no call of calculateFloorArea is in progress
NoTrace ==
  [called |-> FALSE, running |-> FALSE, walls |-> <<>>, usedWalls |-> {},
   nextPoint |-> Pt(0, 0), vertices |-> <<>>, visited |-> <<>>,
   iterations |-> 0, stopped |-> FALSE]

\* calculateFloorArea up to the while loop: the early returns, or the first
\* wall is taken; visited lists the positions of the walls taken so far
traceEntry(fp) ==
  LET walls == WallsOf(fp)
  IN  IF Len(walls) < 3 \/ ~isRoomClosed(fp)
      THEN [NoTrace EXCEPT !.called = TRUE, !.walls = walls]
      ELSE [called |-> TRUE, running |-> TRUE, walls |-> walls,
            usedWalls |-> {walls[1].id}, nextPoint |-> EndOf(walls[1]),
            vertices |-> <<StartOf(walls[1])>>, visited |-> <<1>>,
            iterations |-> 0, stopped |-> FALSE]

\* mutant: the wall found is not added to usedWalls
traceIteration_NoMark(t) ==
  IF Cardinality(t.usedWalls) >= Len(t.walls)
  THEN [t EXCEPT !.running = FALSE]
  ELSE LET i == NextWallIndex(t.walls, t.usedWalls, t.nextPoint)
           pushed == [t EXCEPT !.vertices = Append(@, t.nextPoint),
                               !.iterations = @ + 1]
       IN  IF i = 0
           THEN [pushed EXCEPT !.running = FALSE, !.stopped = TRUE]
           ELSE [pushed EXCEPT
                   !.visited = Append(@, i),
                   !.nextPoint = IF Near(StartOf(t.walls[i]), t.nextPoint)
                                 THEN EndOf(t.walls[i])
                                 ELSE StartOf(t.walls[i])]

\* the loop test and one pass through the body of the while loop
traceIteration(t) ==
  IF Cardinality(t.usedWalls) >= Len(t.walls)
  THEN [t EXCEPT !.running = FALSE]
  ELSE LET i == NextWallIndex(t.walls, t.usedWalls, t.nextPoint)
           pushed == [t EXCEPT !.vertices = Append(@, t.nextPoint),
                               !.iterations = @ + 1]
       IN  IF i = 0
           THEN [pushed EXCEPT !.running = FALSE, !.stopped = TRUE]
           ELSE [pushed EXCEPT
                   !.usedWalls = @ \cup {t.walls[i].id},
                   !.visited = Append(@, i),
                   !.nextPoint = IF Near(StartOf(t.walls[i]), t.nextPoint)
                                 THEN EndOf(t.walls[i])
                                 ELSE StartOf(t.walls[i])]

\* parseFloat((area * FEET_TO_METERS * FEET_TO_METERS).toFixed(2)), in
\* hundredths of a square metre; area2 is calculateFloorArea's value.
\* area2 / 200 * (381/1250)^2 * 100 = area2 * 381 * 381 / (1250 * 2500),
\* evaluated limb by limb to stay within 32-bit integers.
AreaToM2(area2) ==
  LET t1 == area2 * FEET_TO_METERS_NUM
      q1 == t1 \div FEET_TO_METERS_DEN
      r1 == t1 % FEET_TO_METERS_DEN
      t2 == q1 * FEET_TO_METERS_NUM
      q2 == t2 \div (2 * FEET_TO_METERS_DEN)
      r2 == t2 % (2 * FEET_TO_METERS_DEN)
      den == 2 * FEET_TO_METERS_DEN * FEET_TO_METERS_DEN
      num == r2 * FEET_TO_METERS_DEN + r1 * FEET_TO_METERS_NUM
  IN  q2 + (2 * num + den) \div (2 * den)


----------------------------------------------------------------------------
(* Objects *)

\* { ...obj, ...updates }
Merge(obj, updates) ==
  [k \in DOMAIN obj \cup DOMAIN updates |->
     IF k \in DOMAIN updates THEN updates[k] ELSE obj[k]]

\* array.map(e => e.id === id ? { ...e, ...updates } : e)
MapUpdate(seq, id, updates) ==
  [i \in 1 .. Len(seq) |->
     IF seq[i].id = id THEN Merge(seq[i], updates) ELSE seq[i]]

\* array.filter(e => e.id !== id)
FilterId(seq, id) == SelectSeq(seq, LAMBDA e : e.id # id)

\* array.filter(e => e.wall_id !== wallId)
FilterWallId(seq, wallId) == SelectSeq(seq, LAMBDA e : e.wall_id # wallId)

\* array.find(w => w.id === id): index of the first match, 0 for undefined
FindIndex(seq, id) ==
  IF \E i \in 1 .. Len(seq) : seq[i].id = id
  THEN CHOOSE i \in 1 .. Len(seq) :
         seq[i].id = id /\ \A j \in 1 .. i - 1 : seq[j].id # id
  ELSE 0

\* the values generateId can return
IdSpace == 1 .. MaxId

NoWall == 0

NoDrag == [wallId |-> NoWall, endpoint |-> "none"]

Wall(id, x1, y1, x2, y2) ==
  [id |-> id, x1 |-> x1, y1 |-> y1, x2 |-> x2, y2 |-> y2,
   height |-> 90, thickness |-> 75, material |-> "brick"]

NewWindow(id, wallId) ==
  [id |-> id, wall_id |-> wallId, position |-> 50, width |-> 40,
   height |-> 45, u_value |-> 28, sealing |-> "average",
   material |-> "double_glazed"]

\* mutant: the new door is placed past the end of its wall
NewDoor_PastEnd(id, wallId) ==
  [id |-> id, wall_id |-> wallId, position |-> 130, width |-> 30,
   height |-> 70, u_value |-> 20, sealing |-> "average",
   material |-> "wood"]

NewDoor(id, wallId) ==
  [id |-> id, wall_id |-> wallId, position |-> 30, width |-> 30,
   height |-> 70, u_value |-> 20, sealing |-> "average",
   material |-> "wood"]

\* useState initial value of EditorPage
DefaultFloorplan ==
  [walls |-> <<>>, windows |-> <<>>, doors |-> <<>>,
   floor |-> [area |-> 2000, u_value |-> 18, type |-> "ground"],
   ceiling |-> [area |-> 2000, u_value |-> 18, type |-> "roof"],
   ventilation |-> [air_changes_per_hour |-> 5, exhaust_rate |-> 0],
   absent |-> {}]


----------------------------------------------------------------------------
(* What every handler does around its body *)

\* what a handler leaves in the floorplan object it closes over: the
\* handlers build the next snapshot with spread, map, filter and find, and
\* assign to no field, array or element of the object they were given
\* mutant: the handler pushes a wall onto the walls array it was given
LeftInPlace_Pushed(fp) ==
  [fp EXCEPT !.walls = Append(WallsOf(fp), Wall(0, 20, 20, 120, 20)),
             !.absent = @ \ {"walls"}]

LeftInPlace(fp) == fp

\* a handler is invoked: it closes over the floorplan prop of this render
Called(name, id, arg) ==
  /\ steps < MaxOps
  /\ steps' = steps + 1
  /\ lastOp' = [name |-> name, id |-> id, arg |-> arg, after |-> lastOp.name,
                fresh |-> floorplan = pageFloorplan /\ dragging = draggingState]
  /\ prevFloorplan' = floorplan
  /\ prevPage' = pageFloorplan
  /\ passedIn' = LeftInPlace(floorplan)
  /\ returned' = <<>>
  /\ UNCHANGED outsideHandlers

\* the same for the handlers of pointer events
PointerCalled(name, id, arg) ==
  /\ steps < MaxPointerEvents
  /\ steps' = steps + 1
  /\ lastOp' = [name |-> name, id |-> id, arg |-> arg, after |-> lastOp.name,
                fresh |-> floorplan = pageFloorplan /\ dragging = draggingState]
  /\ prevFloorplan' = floorplan
  /\ prevPage' = pageFloorplan
  /\ passedIn' = LeftInPlace(floorplan)
  /\ returned' = <<>>
  /\ UNCHANGED outsideHandlers

\* the render that follows a state update: the handlers now close over the
\* latest floorplan and dragging state
RenderWith(fp, drag) ==
  /\ floorplan' = fp
  /\ dragging' = drag
  /\ roomClosed' = isRoomClosed(fp)
  /\ floorAreaSqFt' = calculateFloorArea(fp)

\* onChange(next) in the handler of a discrete event: EditorPage stores
\* next and the editor renders again before the next event
\* mutant: the handler calls onChange a second time
Emit_Twice(next) ==
  /\ pageFloorplan' = next
  /\ emitted' = 2
  /\ threw' = FALSE
  /\ floorplan' = next
  /\ roomClosed' = isRoomClosed(next)
  /\ floorAreaSqFt' = calculateFloorArea(next)

Emit(next) ==
  /\ pageFloorplan' = next
  /\ emitted' = 1
  /\ threw' = FALSE
  /\ floorplan' = next
  /\ roomClosed' = isRoomClosed(next)
  /\ floorAreaSqFt' = calculateFloorArea(next)

\* the handler of a discrete event returns without calling onChange
NoEmit ==
  /\ emitted' = 0
  /\ threw' = FALSE
  /\ pageFloorplan' = pageFloorplan
  /\ floorplan' = pageFloorplan
  /\ roomClosed' = isRoomClosed(pageFloorplan)
  /\ floorAreaSqFt' = calculateFloorArea(pageFloorplan)

\* reading .map, .filter or .find of an absent sequence: a TypeError ends
\* the handler before onChange is reached
Throw ==
  /\ emitted' = 0
  /\ threw' = TRUE
  /\ UNCHANGED <<pageFloorplan, floorplan, roomClosed, floorAreaSqFt>>

\* onChange(next) in the handler of a continuous event: EditorPage stores
\* next, the render is left to a later task
EmitPending(next) ==
  /\ pageFloorplan' = next
  /\ emitted' = 1
  /\ threw' = FALSE
  /\ UNCHANGED <<floorplan, roomClosed, floorAreaSqFt>>

\* the handler of a continuous event returns without calling onChange
NoEmitPending ==
  /\ emitted' = 0
  /\ threw' = FALSE
  /\ UNCHANGED <<pageFloorplan, floorplan, roomClosed, floorAreaSqFt>>

\* a handler that does not call setDragging, in a discrete event
KeepDragging == draggingState' = draggingState /\ dragging' = draggingState

----------------------------------------------------------------------------
(* Mutation API *)

WallUpdates == {[height |-> 80], [id |-> 3]}

\* the fields given to updateWindow / updateDoor; position is in hundredths
WindowUpdates ==
  {[width |-> 30], [wall_id |-> 3], [position |-> 80], [position |-> 150]}

DoorUpdates == {[width |-> 35], [wall_id |-> 3], [position |-> -10]}

LengthInputs == {0, 50, 200}

\* mutant: the new wall is put in front of the existing walls
addWallResult_Prepended(fp, id) ==
  LET walls == WallsOf(fp)
      startX == IF Len(walls) > 0 THEN walls[Len(walls)].x2 ELSE 20
      startY == IF Len(walls) > 0 THEN walls[Len(walls)].y2 ELSE 20
      newWall == Wall(id, startX, startY, startX + 100, startY)
  IN  [fp EXCEPT !.walls = <<newWall>> \o walls,
                 !.absent = @ \ {"walls"}]

addWallResult(fp, id) ==
  LET walls == WallsOf(fp)
      startX == IF Len(walls) > 0 THEN walls[Len(walls)].x2 ELSE 20
      startY == IF Len(walls) > 0 THEN walls[Len(walls)].y2 ELSE 20
      newWall == Wall(id, startX, startY, startX + 100, startY)
  IN  [fp EXCEPT !.walls = Append(walls, newWall),
                 !.absent = @ \ {"walls"}]

AddWall ==
  \E id \in IdSpace :
    /\ Called("addWall", id, 0)
    /\ Emit(addWallResult(floorplan, id))
    /\ UNCHANGED selectedWall
    /\ KeepDragging

\* mutant: the new window refers to its own id instead of the wall's
addWindowResult_WrongRef(fp, id, wallId) ==
  [fp EXCEPT !.windows = Append(IF Has(fp, "windows") THEN @ ELSE <<>>,
                                NewWindow(id, id)),
             !.absent = @ \ {"windows"}]

addWindowResult(fp, id, wallId) ==
  [fp EXCEPT !.windows = Append(IF Has(fp, "windows") THEN @ ELSE <<>>,
                                NewWindow(id, wallId)),
             !.absent = @ \ {"windows"}]

AddWindow ==
  \E id \in IdSpace, wallId \in IdSpace :
    /\ Called("addWindow", id, wallId)
    /\ Emit(addWindowResult(floorplan, id, wallId))
    /\ UNCHANGED selectedWall
    /\ KeepDragging

addDoorResult(fp, id, wallId) ==
  [fp EXCEPT !.doors = Append(IF Has(fp, "doors") THEN @ ELSE <<>>,
                              NewDoor(id, wallId)),
             !.absent = @ \ {"doors"}]

AddDoor ==
  \E id \in IdSpace, wallId \in IdSpace :
    /\ Called("addDoor", id, wallId)
    /\ Emit(addDoorResult(floorplan, id, wallId))
    /\ UNCHANGED selectedWall
    /\ KeepDragging

UpdateWindow ==
  \E windowId \in IdSpace, updates \in WindowUpdates :
    /\ Called("updateWindow", windowId, updates)
    /\ IF Has(floorplan, "windows")
       THEN Emit([floorplan EXCEPT
                    !.windows = MapUpdate(@, windowId, updates)])
       ELSE Throw
    /\ UNCHANGED selectedWall
    /\ KeepDragging

DeleteWindow ==
  \E windowId \in IdSpace :
    /\ Called("deleteWindow", windowId, 0)
    /\ IF Has(floorplan, "windows")
       THEN Emit([floorplan EXCEPT !.windows = FilterId(@, windowId)])
       ELSE Throw
    /\ UNCHANGED selectedWall
    /\ KeepDragging

UpdateDoor ==
  \E doorId \in IdSpace, updates \in DoorUpdates :
    /\ Called("updateDoor", doorId, updates)
    /\ IF Has(floorplan, "doors")
       THEN Emit([floorplan EXCEPT !.doors = MapUpdate(@, doorId, updates)])
       ELSE Throw
    /\ UNCHANGED selectedWall
    /\ KeepDragging

DeleteDoor ==
  \E doorId \in IdSpace :
    /\ Called("deleteDoor", doorId, 0)
    /\ IF Has(floorplan, "doors")
       THEN Emit([floorplan EXCEPT !.doors = FilterId(@, doorId)])
       ELSE Throw
    /\ UNCHANGED selectedWall
    /\ KeepDragging

\* mutant: every wall update also resets the floor and ceiling areas
updateWallResult_AreaReset(fp, wallId, updates) ==
  [fp EXCEPT !.walls = MapUpdate(@, wallId, updates),
             !.floor.area = 0, !.ceiling.area = 0]

updateWallResult(fp, wallId, updates) ==
  [fp EXCEPT !.walls = MapUpdate(@, wallId, updates)]

UpdateWall ==
  \E wallId \in IdSpace, updates \in WallUpdates :
    /\ Called("updateWall", wallId, updates)
    /\ IF Has(floorplan, "walls")
       THEN Emit(updateWallResult(floorplan, wallId, updates))
       ELSE Throw
    /\ UNCHANGED selectedWall
    /\ KeepDragging

\* d * (newLength / currentLength) with currentLength = Math.sqrt(lengthSq)
ScaleDelta(d, newLength, lengthSq) ==
  IF d * newLength >= 0 THEN RoundQuotSqrt(d * newLength, lengthSq)
                        ELSE -RoundQuotSqrt(-(d * newLength), lengthSq)

\* mutant: the scaled vector is not added to the start point
lengthUpdates_NoOrigin(wall, newLength) ==
  LET dx == wall.x2 - wall.x1
      dy == wall.y2 - wall.y1
      lengthSq == dx * dx + dy * dy
  IN  [x2 |-> ScaleDelta(dx, newLength, lengthSq),
       y2 |-> ScaleDelta(dy, newLength, lengthSq)]

\* the updates object updateWallLength passes to updateWall
lengthUpdates(wall, newLength) ==
  LET dx == wall.x2 - wall.x1
      dy == wall.y2 - wall.y1
      lengthSq == dx * dx + dy * dy
  IN  [x2 |-> wall.x1 + ScaleDelta(dx, newLength, lengthSq),
       y2 |-> wall.y1 + ScaleDelta(dy, newLength, lengthSq)]

\* getWallLength(wall) === 0
ZeroLength(wall) == wall.x2 = wall.x1 /\ wall.y2 = wall.y1

UpdateWallLength ==
  \E wallId \in IdSpace, newLength \in LengthInputs :
    /\ Called("updateWallLength", wallId, newLength)
    /\ IF ~Has(floorplan, "walls") THEN Throw
       ELSE LET i == FindIndex(floorplan.walls, wallId)
            IN  IF i = 0 THEN NoEmit
                ELSE IF ZeroLength(floorplan.walls[i]) THEN NoEmit
                ELSE Emit(updateWallResult(floorplan, wallId,
                            lengthUpdates(floorplan.walls[i], newLength)))
    /\ UNCHANGED selectedWall
    /\ KeepDragging

\* mutant: the wall is removed but its windows and doors are kept
deleteWallResult_NoCascade(fp, wallId) ==
  [fp EXCEPT !.walls = FilterId(@, wallId),
             !.windows = IF Has(fp, "windows") THEN @ ELSE <<>>,
             !.doors = IF Has(fp, "doors") THEN @ ELSE <<>>,
             !.absent = @ \ {"windows", "doors"}]

deleteWallResult(fp, wallId) ==
  [fp EXCEPT !.walls = FilterId(@, wallId),
             !.windows = IF Has(fp, "windows")
                         THEN FilterWallId(@, wallId) ELSE <<>>,
             !.doors = IF Has(fp, "doors")
                       THEN FilterWallId(@, wallId) ELSE <<>>,
             !.absent = @ \ {"windows", "doors"}]

DeleteWall ==
  \E wallId \in IdSpace :
    /\ Called("deleteWall", wallId, 0)
    /\ IF Has(floorplan, "walls")
       THEN Emit(deleteWallResult(floorplan, wallId)) /\ selectedWall' = NoWall
       ELSE Throw /\ UNCHANGED selectedWall
    /\ KeepDragging

\* the updates the floor and ceiling inputs pass: { u_value: v }
SurfaceUpdates == {[u_value |-> 18], [u_value |-> 5]}

\* the updates the ventilation inputs pass
VentilationUpdates == {[air_changes_per_hour |-> 10], [exhaust_rate |-> 10]}

updateFloorCeilingResult(fp, type, updates) ==
  IF type = "floor" THEN [fp EXCEPT !.floor = Merge(@, updates)]
                    ELSE [fp EXCEPT !.ceiling = Merge(@, updates)]

UpdateFloorCeiling ==
  \E type \in {"floor", "ceiling"}, updates \in SurfaceUpdates :
    /\ Called("updateFloorCeiling", 0, <<type, updates>>)
    /\ Emit(updateFloorCeilingResult(floorplan, type, updates))
    /\ UNCHANGED selectedWall
    /\ KeepDragging

updateVentilationResult(fp, updates) ==
  [fp EXCEPT !.ventilation = Merge(@, updates)]

UpdateVentilation ==
  \E updates \in VentilationUpdates :
    /\ Called("updateVentilation", 0, updates)
    /\ Emit(updateVentilationResult(floorplan, updates))
    /\ UNCHANGED selectedWall
    /\ KeepDragging

----------------------------------------------------------------------------
(* Dragging a wall endpoint *)

\* SNAP_DISTANCE / SCALE feet
SnapRadius == (SNAP_DISTANCE * 10) \div SCALE

DistSq(x, y, point) ==
  (x - point.x) * (x - point.x) + (y - point.y) * (y - point.y)

\* mutant: the endpoints of the excluded wall are snap points as well
getSnapPoints_OwnIncluded(fp, excludeWallId) ==
  [k \in 1 .. 2 * Len(WallsOf(fp)) |->
     LET w == WallsOf(fp)[(k + 1) \div 2]
     IN  IF k % 2 = 1
         THEN [x |-> w.x1, y |-> w.y1, wallId |-> w.id]
         ELSE [x |-> w.x2, y |-> w.y2, wallId |-> w.id]]

getSnapPoints(fp, excludeWallId) ==
  LET points == [k \in 1 .. 2 * Len(WallsOf(fp)) |->
                   LET w == WallsOf(fp)[(k + 1) \div 2]
                   IN  IF k % 2 = 1
                       THEN [x |-> w.x1, y |-> w.y1, wallId |-> w.id]
                       ELSE [x |-> w.x2, y |-> w.y2, wallId |-> w.id]]
  IN  SelectSeq(points, LAMBDA point : point.wallId # excludeWallId)

\* the forEach of findSnapPoint from point i on: the index of the nearest
\* point found, 0 for null
RECURSIVE NearestFrom(_, _, _, _, _, _)
NearestFrom(snapPoints, i, x, y, minDistSq, nearest) ==
  IF i > Len(snapPoints) THEN nearest
  ELSE IF DistSq(x, y, snapPoints[i]) < minDistSq
       THEN NearestFrom(snapPoints, i + 1, x, y,
                        DistSq(x, y, snapPoints[i]), i)
       ELSE NearestFrom(snapPoints, i + 1, x, y, minDistSq, nearest)

\* mutant: the point farthest from (x, y) within the snap radius is kept
RECURSIVE FarthestFrom(_, _, _, _, _, _)
FarthestFrom(snapPoints, i, x, y, maxDistSq, farthest) ==
  IF i > Len(snapPoints) THEN farthest
  ELSE IF /\ DistSq(x, y, snapPoints[i]) < SnapRadius * SnapRadius
          /\ DistSq(x, y, snapPoints[i]) > maxDistSq
       THEN FarthestFrom(snapPoints, i + 1, x, y,
                         DistSq(x, y, snapPoints[i]), i)
       ELSE FarthestFrom(snapPoints, i + 1, x, y, maxDistSq, farthest)

findSnapPoint_Farthest(fp, x, y, excludeWallId) ==
  LET snapPoints == getSnapPoints(fp, excludeWallId)
      farthest == FarthestFrom(snapPoints, 1, x, y, -1, 0)
  IN  IF farthest = 0 THEN <<>> ELSE <<snapPoints[farthest]>>

\* <<>> for null, <<point>> for a point
findSnapPoint(fp, x, y, excludeWallId) ==
  LET snapPoints == getSnapPoints(fp, excludeWallId)
      nearest == NearestFrom(snapPoints, 1, x, y, SnapRadius * SnapRadius, 0)
  IN  IF nearest = 0 THEN <<>> ELSE <<snapPoints[nearest]>>

\* mutant: the threshold is 45 degrees
WithinThreshold_Wide(a, b) == a > 0 /\ Abs(b) < a

\* |angle of (a, b) from the positive a axis| < ANGLE_SNAP_THRESHOLD
WithinThreshold(a, b) == a > 0 /\ Abs(b) * TAN10_DEN < a * TAN10_NUM

\* the right-angle step of handleMouseMove: the first of the angles
\* 0, 90, 180, -90, -180 within the threshold of atan2(dy, dx); atan2(0, 0)
\* is 0
RightAngleSnap(anchor, coords) ==
  LET dx == coords.x - anchor.x
      dy == coords.y - anchor.y
      length == RoundSqrt(dx * dx + dy * dy)
      isRightAngle == \/ dx = 0 /\ dy = 0
                      \/ WithinThreshold(dx, dy) \/ WithinThreshold(dy, dx)
                      \/ WithinThreshold(-dx, dy) \/ WithinThreshold(-dy, dx)
  IN  IF isRightAngle /\ dx * dx + dy * dy >= MIN_SNAP_LENGTH * MIN_SNAP_LENGTH
      THEN IF WithinThreshold(dx, dy) THEN Pt(anchor.x + length, anchor.y)
           ELSE IF WithinThreshold(dy, dx) THEN Pt(anchor.x, anchor.y + length)
           ELSE IF WithinThreshold(-dx, dy) THEN Pt(anchor.x - length, anchor.y)
           ELSE Pt(anchor.x, anchor.y - length)
      ELSE coords

\* finalX, finalY of handleMouseMove
DragSnap(fp, wallId, anchor, coords) ==
  LET final == RightAngleSnap(anchor, coords)
      snapPoint == findSnapPoint(fp, final.x, final.y, wallId)
  IN  IF snapPoint # <<>> THEN Pt(snapPoint[1].x, snapPoint[1].y) ELSE final

\* the forEach of snapToAxis from point i on; each axis takes the first match
RECURSIVE AxisFrom(_, _, _, _, _)
AxisFrom(snapPoints, i, x, y, acc) ==
  IF i > Len(snapPoints) THEN acc
  ELSE LET point == snapPoints[i]
           matchX == ~acc.xSnapped /\ Abs(point.x - x) < AXIS_SNAP_THRESHOLD
           matchY == ~acc.ySnapped /\ Abs(point.y - y) < AXIS_SNAP_THRESHOLD
       IN  AxisFrom(snapPoints, i + 1, x, y,
                    [x |-> IF matchX THEN point.x ELSE acc.x,
                     y |-> IF matchY THEN point.y ELSE acc.y,
                     xSnapped |-> acc.xSnapped \/ matchX,
                     ySnapped |-> acc.ySnapped \/ matchY])

\* the same without the !xSnapped and !ySnapped guards
RECURSIVE AxisFromUnguarded(_, _, _, _, _)
AxisFromUnguarded(snapPoints, i, x, y, acc) ==
  IF i > Len(snapPoints) THEN acc
  ELSE LET point == snapPoints[i]
           matchX == Abs(point.x - x) < AXIS_SNAP_THRESHOLD
           matchY == Abs(point.y - y) < AXIS_SNAP_THRESHOLD
       IN  AxisFromUnguarded(snapPoints, i + 1, x, y,
                    [x |-> IF matchX THEN point.x ELSE acc.x,
                     y |-> IF matchY THEN point.y ELSE acc.y,
                     xSnapped |-> acc.xSnapped \/ matchX,
                     ySnapped |-> acc.ySnapped \/ matchY])

\* mutant: the last matching endpoint wins on each axis
\* the same with the matched coordinate moved half of the way only
RECURSIVE AxisFromHalfway(_, _, _, _, _)
AxisFromHalfway(snapPoints, i, x, y, acc) ==
  IF i > Len(snapPoints) THEN acc
  ELSE LET point == snapPoints[i]
           matchX == ~acc.xSnapped /\ Abs(point.x - x) < AXIS_SNAP_THRESHOLD
           matchY == ~acc.ySnapped /\ Abs(point.y - y) < AXIS_SNAP_THRESHOLD
       IN  AxisFromHalfway(snapPoints, i + 1, x, y,
                    [x |-> IF matchX THEN x + (point.x - x) \div 2 ELSE acc.x,
                     y |-> IF matchY THEN y + (point.y - y) \div 2 ELSE acc.y,
                     xSnapped |-> acc.xSnapped \/ matchX,
                     ySnapped |-> acc.ySnapped \/ matchY])

\* mutant: a soft snap, half of the way to the matching endpoint
snapToAxis_Halfway(fp, x, y, excludeWallId) ==
  AxisFromHalfway(getSnapPoints(fp, excludeWallId), 1, x, y,
                  [x |-> x, y |-> y, xSnapped |-> FALSE, ySnapped |-> FALSE])

snapToAxis_LastWins(fp, x, y, excludeWallId) ==
  AxisFromUnguarded(getSnapPoints(fp, excludeWallId), 1, x, y,
                    [x |-> x, y |-> y, xSnapped |-> FALSE, ySnapped |-> FALSE])

snapToAxis(fp, x, y, excludeWallId) ==
  AxisFrom(getSnapPoints(fp, excludeWallId), 1, x, y,
           [x |-> x, y |-> y, xSnapped |-> FALSE, ySnapped |-> FALSE])

\* the largest q among 1, 2, 4, ... with q / 16 ft <= n / 10 ft (n >= 1)
RECURSIVE Pow2Below(_, _)
Pow2Below(n, q) == IF 20 * q <= 16 * n THEN Pow2Below(n, 2 * q) ELSE q

\* anchor + length * c in double precision, compared with anchor, for the
\* c that Math.cos and Math.sin return in place of 0 (kSq = (c * 2^53)^2
\* as kSq / TRIG_SQ_DEN, sign = the sign of c): 0 when the sum rounds to
\* the anchor's coordinate, else the sign of the difference.  The sum rounds
\* to anchor when length * |c| is below half the spacing of the doubles at
\* anchor, 2^(e - 53) with 2^e the largest power of two not above |anchor|
\* (half of that below a power of two); nothing rounds to an anchor of 0.
TrigResidue(anchor, lengthSq, kSq, sign) ==
  IF anchor = 0 THEN sign
  ELSE LET q == Pow2Below(Abs(anchor), 1)
           towardZero == (anchor > 0) # (sign > 0)
           halved == towardZero /\ 10 * q = 16 * Abs(anchor)
           absorbed == ~FracLeq(100 * q * q,
                                (IF halved THEN 1024 ELSE 256) * lengthSq,
                                kSq, TRIG_SQ_DEN)
       IN  IF absorbed THEN 0 ELSE sign

\* what the double returned for a coordinate can be off the double put in,
\* below the resolution of the grid
Roundings == {-1, 0, 1}

\* snapToRightAngle: x and y are the grid values of the returned
\* coordinates; epsX and epsY are the sign of what the returned double is
\* off the double that grid value stands for in the arguments (the anchor's
\* coordinate across the snapped direction, the dragged point's coordinate
\* when no angle matched), 0 when they are the same double.  Along the
\* snapped direction the grid value is the rounded length and eps is 0.
\* When no angle matches, the point is recomputed from atan2, cos and sin
\* of its own angle, which is off by rounding, one way or the other or not
\* at all.
snapToRightAngle(x, y, anchorX, anchorY, rounding) ==
  LET dx == x - anchorX
      dy == y - anchorY
      lengthSq == dx * dx + dy * dy
      length == RoundSqrt(lengthSq)
  IN  IF lengthSq < MIN_SNAP_LENGTH * MIN_SNAP_LENGTH
      THEN [x |-> x, y |-> y, epsX |-> 0, epsY |-> 0]
      ELSE IF WithinThreshold(dx, dy)
      THEN [x |-> anchorX + length, y |-> anchorY, epsX |-> 0, epsY |-> 0]
      ELSE IF WithinThreshold(dy, dx)
      THEN [x |-> anchorX, y |-> anchorY + length,
            epsX |-> TrigResidue(anchorX, lengthSq, COS90_SQ_NUM, 1),
            epsY |-> 0]
      ELSE IF WithinThreshold(-dx, dy)
      THEN [x |-> anchorX - length, y |-> anchorY, epsX |-> 0,
            epsY |-> TrigResidue(anchorY, lengthSq, SIN180_SQ_NUM,
                                 IF dy >= 0 THEN 1 ELSE -1)]
      ELSE IF WithinThreshold(-dy, dx)
      THEN [x |-> anchorX, y |-> anchorY - length,
            epsX |-> TrigResidue(anchorX, lengthSq, COS90_SQ_NUM, 1),
            epsY |-> 0]
      ELSE [x |-> x, y |-> y, epsX |-> rounding[1], epsY |-> rounding[2]]

\* finalX, finalY after the right-angle step of handleMouseMove, in the
\* same form: the step assigns only when an angle matched and the length
\* is at least the minimum
RightAngleStep(anchor, coords) ==
  LET dx == coords.x - anchor.x
      dy == coords.y - anchor.y
      isRightAngle == \/ dx = 0 /\ dy = 0
                      \/ WithinThreshold(dx, dy) \/ WithinThreshold(dy, dx)
                      \/ WithinThreshold(-dx, dy) \/ WithinThreshold(-dy, dx)
  IN  IF isRightAngle /\ dx * dx + dy * dy >= MIN_SNAP_LENGTH * MIN_SNAP_LENGTH
      THEN snapToRightAngle(coords.x, coords.y, anchor.x, anchor.y, <<0, 0>>)
      ELSE [x |-> coords.x, y |-> coords.y, epsX |-> 0, epsY |-> 0]

AnchorOf(wall, endpoint) ==
  IF endpoint = "start" THEN EndOf(wall) ELSE StartOf(wall)

DraggedOf(wall, endpoint) ==
  IF endpoint = "start" THEN StartOf(wall) ELSE EndOf(wall)

\* pointer positions, in tenths of a foot
DragCoords ==
  { Pt(60, 15), Pt(60, 10), Pt(61, 0), Pt(60, 34), Pt(60, 30), Pt(60, 36),
    Pt(100, 3), Pt(100, 0), Pt(3, 3), Pt(0, 0), Pt(40, 80), Pt(-2, 70),
    Pt(0, 70), Pt(60, 20) }

\* mouse down on one of the two handles of a rendered wall
HandleMouseDown ==
  \E i \in 1 .. Len(WallsOf(floorplan)), endpoint \in {"start", "end"} :
    /\ PointerCalled("handleMouseDown", WallsOf(floorplan)[i].id, endpoint)
    /\ draggingState' = [wallId |-> WallsOf(floorplan)[i].id,
                         endpoint |-> endpoint]
    /\ dragging' = draggingState'
    /\ selectedWall' = WallsOf(floorplan)[i].id
    /\ NoEmit

\* mouse move over the canvas, a continuous event
HandleMouseMove ==
  \E coords \in DragCoords :
    /\ PointerCalled("handleMouseMove", dragging.wallId, coords)
    /\ IF dragging = NoDrag THEN NoEmitPending
       ELSE IF ~Has(floorplan, "walls") THEN Throw
       ELSE LET i == FindIndex(floorplan.walls, dragging.wallId)
                wall == floorplan.walls[i]
                final == DragSnap(floorplan, dragging.wallId,
                                  AnchorOf(wall, dragging.endpoint), coords)
            IN  IF i = 0 THEN NoEmitPending
                ELSE IF dragging.endpoint = "start"
                THEN EmitPending(updateWallResult(floorplan, dragging.wallId,
                                   [x1 |-> final.x, y1 |-> final.y]))
                ELSE EmitPending(updateWallResult(floorplan, dragging.wallId,
                                   [x2 |-> final.x, y2 |-> final.y]))
    /\ UNCHANGED <<selectedWall, dragging, draggingState>>

\* mutant: the area is written in square feet
syncFloorCeilingArea_NoConversion(fp) ==
  LET area == calculateFloorArea(fp)
  IN  IF area > 0
      THEN <<[fp EXCEPT !.floor = Merge(@, [area |-> area \div 2]),
                        !.ceiling = Merge(@, [area |-> area \div 2])]>>
      ELSE <<>>

\* the snapshot syncFloorCeilingArea emits, <<>> when it emits none
syncFloorCeilingArea(fp) ==
  LET area == calculateFloorArea(fp)
  IN  IF area > 0
      THEN <<[fp EXCEPT !.floor = Merge(@, [area |-> AreaToM2(area)]),
                        !.ceiling = Merge(@, [area |-> AreaToM2(area)])]>>
      ELSE <<>>

\* the snapshot handleMouseUp hands to onChange before setDragging(null):
\* that of syncFloorCeilingArea when a drag is active, else none
handleMouseUp ==
  IF dragging # NoDrag THEN syncFloorCeilingArea(floorplan) ELSE <<>>

\* mouse up on the canvas, a discrete event
HandleMouseUp ==
  /\ PointerCalled("handleMouseUp", dragging.wallId, dragging.endpoint)
  /\ IF handleMouseUp # <<>> THEN Emit(handleMouseUp[1]) ELSE NoEmit
  /\ draggingState' = NoDrag
  /\ dragging' = NoDrag
  /\ UNCHANGED selectedWall

\* the pointer leaves the canvas (onMouseLeave = handleMouseUp), a
\* continuous event
HandleMouseLeave ==
  /\ PointerCalled("onMouseLeave", dragging.wallId, dragging.endpoint)
  /\ IF handleMouseUp # <<>> THEN EmitPending(handleMouseUp[1])
                             ELSE NoEmitPending
  /\ draggingState' = NoDrag
  /\ UNCHANGED <<selectedWall, dragging>>

\* the render React had left to a later task
Render ==
  /\ floorplan # pageFloorplan \/ dragging # draggingState
  /\ RenderWith(pageFloorplan, draggingState)
  /\ UNCHANGED <<pageFloorplan, draggingState, selectedWall, lastOp,
                 prevFloorplan, prevPage, passedIn, returned, emitted, threw,
                 steps>>
  /\ UNCHANGED outsideHandlers

----------------------------------------------------------------------------
(* EditorPage: the floorplan of the loaded project replaces the state *)

Window(id, wallId) == NewWindow(id, wallId)

Door(id, wallId) == NewDoor(id, wallId)

ProjectFloorplans ==
  { [DefaultFloorplan EXCEPT
       !.walls = <<Wall(1, 0, 0, 100, 0), Wall(2, 100, 0, 100, 100)>>,
       !.windows = <<Window(1, 1), Window(2, 2), Window(3, 1)>>,
       !.doors = <<Door(1, 2), Door(2, 1), Door(3, 2)>>],
    [DefaultFloorplan EXCEPT
       !.walls = <<Wall(1, 0, 0, 100, 0), Wall(2, 20, 10, 30, 20)>>],
    [DefaultFloorplan EXCEPT
       !.walls = <<Wall(1, 10, 20, 40, 60), Wall(2, 50, 50, 50, 50)>>,
       !.windows = <<Window(1, 3), Window(2, 1)>>,
       !.doors = <<Door(1, 3)>>],
    [DefaultFloorplan EXCEPT !.absent = {"walls", "windows", "doors"}] }

LoadProject ==
  \E fp \in ProjectFloorplans :
    /\ steps' = 0
    /\ lastOp' = [name |-> "setFloorplan", id |-> 0, arg |-> 0,
                  after |-> "mount", fresh |-> TRUE]
    /\ prevFloorplan' = fp
    /\ prevPage' = fp
    /\ passedIn' = fp
    /\ returned' = <<>>
    /\ pageFloorplan' = fp
    /\ floorplan' = fp
    /\ emitted' = 0
    /\ threw' = FALSE
    /\ roomClosed' = isRoomClosed(fp)
    /\ floorAreaSqFt' = calculateFloorArea(fp)
    /\ UNCHANGED selectedWall
    /\ KeepDragging
    /\ UNCHANGED outsideHandlers

----------------------------------------------------------------------------
(* The editor on the page's initial floorplan *)

Mounted(fp) ==
  /\ floorplan = fp
  /\ pageFloorplan = fp
  /\ selectedWall = NoWall
  /\ dragging = NoDrag
  /\ draggingState = NoDrag
  /\ roomClosed = isRoomClosed(fp)
  /\ floorAreaSqFt = calculateFloorArea(fp)
  /\ lastOp = [name |-> "mount", id |-> 0, arg |-> 0, after |-> "mount",
               fresh |-> TRUE]
  /\ prevFloorplan = fp
  /\ prevPage = fp
  /\ passedIn = fp
  /\ returned = <<>>
  /\ emitted = 0
  /\ threw = FALSE
  /\ steps = 0
  /\ trace = NoTrace

\* projectStore before a project is fetched: currentProject is null
NoProject == [loaded |-> FALSE, floorplan |-> DefaultFloorplan]

\* simulationStore as created: currentJob and currentResult are null
NoJob == [status |-> "null"]

NoResult == "null"

SimulationStoreCreated ==
  /\ currentJob = NoJob
  /\ currentResult = NoResult
  /\ isPolling = FALSE
  /\ loops = <<>>

\* authStore has no user: user is null
NoUser == "null"

\* localStorage holds no token: getItem('token') is null
NoToken == "null"

\* authStore behind ProtectedRoute: initialize has fetched the user with
\* the stored token and no call is in progress
SignedIn ==
  /\ user = "user"
  /\ isAuthenticated = TRUE
  /\ isLoading = FALSE
  /\ localStorage = "access_token"
  /\ authCalls = <<>>

\* the stores as created, nothing requested, the user signed in
StoresCreated ==
  /\ currentProject = NoProject
  /\ requests = <<>>
  /\ SimulationStoreCreated
  /\ SignedIn

Init == Mounted(DefaultFloorplan) /\ StoresCreated

Next ==
  \/ LoadProject
  \/ AddWall
  \/ AddWindow
  \/ AddDoor
  \/ UpdateWindow
  \/ DeleteWindow
  \/ UpdateDoor
  \/ DeleteDoor
  \/ UpdateWall
  \/ UpdateWallLength
  \/ DeleteWall
  \/ UpdateFloorCeiling
  \/ UpdateVentilation

Spec == Init /\ [][Next]_vars


----------------------------------------------------------------------------
(* The editor mounted on a given wall set; the pointer is pressed and
   released on the handles, which runs syncFloorCeilingArea *)

GeomSegments ==
  { <<0, 0, 0, 3>>, <<0, 3, 0, 0>>, <<0, 3, 100, 0>>, <<100, 0, 0, 3>>,
    <<100, 0, 0, 0>>, <<0, 0, 100, 0>>, <<0, 0, 0, 0>> }

\* the walls with the given end points, ids 1, 2, ...
WallsFrom(segs) ==
  [i \in 1 .. Len(segs) |->
     Wall(i, segs[i][1], segs[i][2], segs[i][3], segs[i][4])]

WithWalls(walls) == [DefaultFloorplan EXCEPT !.walls = walls]

EnumeratedFloorplans ==
  { WithWalls(WallsFrom(segs)) :
      segs \in UNION { [1 .. n -> GeomSegments] : n \in 0 .. MaxGeomWalls } }

Square ==
  << <<0, 0, 100, 0>>, <<100, 0, 100, 100>>, <<100, 100, 0, 100>>,
     <<0, 100, 0, 0>> >>

ShuffledSquare ==
  << <<100, 0, 0, 0>>, <<0, 100, 100, 100>>, <<0, 0, 0, 100>>,
     <<100, 100, 100, 0>> >>

Triangle == << <<0, 0, 100, 0>>, <<100, 0, 0, 100>>, <<0, 100, 0, 0>> >>

FarTriangle ==
  << <<200, 0, 300, 0>>, <<300, 0, 200, 100>>, <<200, 100, 200, 0>> >>

\* end points up to 0.4 ft apart, the walls given out of order
LooseTriangle == << <<0, 0, 100, 0>>, <<2, 104, 0, 4>>, <<104, 0, 0, 100>> >>

\* a gap of exactly 0.5 ft at one corner
GappedTriangle == << <<0, 0, 100, 0>>, <<105, 0, 0, 100>>, <<0, 100, 0, 0>> >>

\* a triangle with legs of 0.3 ft: 0.045 ft^2, which is 0.004 m^2
TinyTriangle == << <<0, 0, 3, 0>>, <<3, 0, 0, 3>>, <<0, 3, 0, 0>> >>

\* a plus-shaped room of twelve walls
Plus ==
  << <<100, 0, 200, 0>>, <<200, 0, 200, 100>>, <<200, 100, 300, 100>>,
     <<300, 100, 300, 200>>, <<300, 200, 200, 200>>, <<200, 200, 200, 300>>,
     <<200, 300, 100, 300>>, <<100, 300, 100, 200>>, <<100, 200, 0, 200>>,
     <<0, 200, 0, 100>>, <<0, 100, 100, 100>>, <<100, 100, 100, 0>> >>

ExampleFloorplans ==
  { WithWalls(WallsFrom(Square)),
    WithWalls(WallsFrom(ShuffledSquare)),
    WithWalls(WallsFrom(Triangle)),
    WithWalls(WallsFrom(Triangle \o FarTriangle)),
    WithWalls(WallsFrom(Square \o << <<0, 0, 100, 100>> >>)),
    WithWalls(WallsFrom(SubSeq(Square, 1, 3))),
    WithWalls(WallsFrom(LooseTriangle)),
    WithWalls(WallsFrom(GappedTriangle)),
    WithWalls(WallsFrom(TinyTriangle)),
    WithWalls(WallsFrom(Plus)),
    WithWalls(<<Wall(1, 0, 0, 100, 0), Wall(1, 100, 0, 0, 100),
                Wall(2, 0, 100, 0, 0)>>),
    [DefaultFloorplan EXCEPT !.absent = {"walls"}] }

GeomFloorplans == EnumeratedFloorplans \cup ExampleFloorplans

InitGeom == (\E fp \in GeomFloorplans : Mounted(fp)) /\ StoresCreated

NextGeom == HandleMouseDown \/ HandleMouseUp

SpecGeom == InitGeom /\ [][NextGeom]_vars

----------------------------------------------------------------------------
(* The editor mounted on a floorplan whose wall endpoints are dragged *)

DragFloorplans ==
  { WithWalls(WallsFrom(<< <<0, 0, 50, 50>>, <<60, 10, 100, 50>>,
                          <<60, 30, 60, 36>> >>)),
    WithWalls(WallsFrom(<< <<0, 0, 100, 0>>, <<100, 0, 100, 100>>,
                          <<100, 100, 0, 100>>, <<0, 100, 40, 80>> >>)),
    WithWalls(WallsFrom(Square)) }

InitDrag == (\E fp \in DragFloorplans : Mounted(fp)) /\ StoresCreated

NextDrag ==
  \/ HandleMouseDown
  \/ HandleMouseMove
  \/ HandleMouseUp
  \/ HandleMouseLeave
  \/ Render

SpecDrag == InitDrag /\ [][NextDrag]_vars

----------------------------------------------------------------------------
(* calculateFloorArea run statement by statement on a given wall set *)

\* a triangle drawn twice, the second time under the ids of the first
TwiceTriangle ==
  WallsFrom(Triangle) \o
  <<Wall(1, 0, 0, 100, 0), Wall(2, 100, 0, 0, 100), Wall(3, 0, 100, 0, 0)>>

\* a square with a zero-length wall at one corner and two walls of one id
PinnedSquare ==
  WallsFrom(Square) \o <<Wall(5, 100, 100, 100, 100), Wall(2, 0, 0, 100, 100)>>

TraceFloorplans ==
  GeomFloorplans \cup {WithWalls(TwiceTriangle), WithWalls(PinnedSquare)}

\* a render calls calculateFloorArea
CalculateFloorArea ==
  /\ ~trace.called
  /\ trace' = traceEntry(floorplan)
  /\ UNCHANGED <<editorVars, currentProject, requests, pollVars, authVars>>

\* the while loop tests its condition and runs its body once
TraceIteration ==
  /\ trace.running
  /\ trace' = traceIteration(trace)
  /\ UNCHANGED <<editorVars, currentProject, requests, pollVars, authVars>>

InitTrace == (\E fp \in TraceFloorplans : Mounted(fp)) /\ StoresCreated

NextTrace == CalculateFloorArea \/ TraceIteration

SpecTrace == InitTrace /\ [][NextTrace]_vars

----------------------------------------------------------------------------
(* EditorPage saving the floorplan while the editor is in use *)

\* updateFloorplan calls made on one loaded project
MaxSaves == 2

Pending(i) == i \in 1 .. Len(requests) /\ requests[i].state = "pending"

\* updateFloorplan(projectId, floorplan): api.put is sent with the floorplan
\* state of the render the handler belongs to
updateFloorplan(origin) ==
  requests' = Append(requests, [floorplan |-> floorplan, origin |-> origin,
                                state |-> "pending"])

\* the Save button
HandleSave ==
  /\ Len(requests) < MaxSaves
  /\ updateFloorplan("handleSave")
  /\ UNCHANGED <<editorVars, trace, currentProject, pollVars, authVars>>

\* onSubmit of the Simulate tab
HandleRunSimulation ==
  /\ Len(requests) < MaxSaves
  /\ updateFloorplan("handleRunSimulation")
  /\ UNCHANGED <<editorVars, trace, currentProject, pollVars, authVars>>

\* the PUT of request i is answered with the project as saved: updateProject
\* stores it as currentProject, the effect on currentProject of EditorPage
\* passes its floorplan to setFloorplan, and the handler goes on (to the
\* notification, or to createJob)
UpdateProjectResponse ==
  \E i \in 1 .. Len(requests) :
    /\ Pending(i)
    /\ requests' = [requests EXCEPT
                      ![i].state = IF requests[i].origin = "handleSave"
                                   THEN "saved" ELSE "creatingJob"]
    /\ currentProject' = [loaded |-> TRUE, floorplan |-> requests[i].floorplan]
    /\ lastOp' = [name |-> "updateProject", id |-> i, arg |-> 0,
                  after |-> lastOp.name, fresh |-> TRUE]
    /\ prevFloorplan' = floorplan
    /\ prevPage' = pageFloorplan
    /\ passedIn' = floorplan
    /\ pageFloorplan' = requests[i].floorplan
    /\ RenderWith(requests[i].floorplan, draggingState)
    /\ UNCHANGED <<selectedWall, draggingState, returned, emitted, threw,
                   steps, trace, pollVars, authVars>>

\* the PUT of request i fails: updateProject throws, the handler shows the
\* error notification, no state is changed
UpdateProjectFailure ==
  \E i \in 1 .. Len(requests) :
    /\ Pending(i)
    /\ requests' = [requests EXCEPT ![i].state = "failed"]
    /\ lastOp' = [name |-> "updateProjectFailed", id |-> i, arg |-> 0,
                  after |-> lastOp.name, fresh |-> TRUE]
    /\ prevFloorplan' = floorplan
    /\ prevPage' = pageFloorplan
    /\ passedIn' = floorplan
    /\ UNCHANGED <<floorplan, pageFloorplan, selectedWall, dragging,
                   draggingState, roomClosed, floorAreaSqFt, returned,
                   emitted, threw, steps, trace, currentProject, pollVars,
                   authVars>>

\* the project was fetched and its floorplan is in the editor
InitSave ==
  \E fp \in ProjectFloorplans :
    /\ Mounted(fp)
    /\ currentProject = [loaded |-> TRUE, floorplan |-> fp]
    /\ requests = <<>>
    /\ SimulationStoreCreated
    /\ SignedIn

NextSave ==
  \/ AddWall
  \/ DeleteWall
  \/ HandleSave
  \/ HandleRunSimulation
  \/ UpdateProjectResponse
  \/ UpdateProjectFailure

SpecSave == InitSave /\ [][NextSave]_vars

----------------------------------------------------------------------------
(* simulationStore: pollJobStatus and stopPolling *)

\* calls of pollJobStatus
MaxLoops == 1
\* fetchJob requests issued by one polling loop
MaxFetches == 3

\* job.status in a response of GET /simulations/:id
JobStatuses == {"PENDING", "RUNNING", "COMPLETED", "FAILED"}

\* a call of pollJobStatus whose poll() has just issued its first fetchJob.
\* pc: the await or timer the poll closure is at; fetches: fetchJob requests
\* issued; ending: fetchJob outcomes that were COMPLETED, FAILED or an
\* error; onComplete / onError: calls made; stopped: stopPolling was called
\* while the loop was active; afterStop: the loop did something after that
NewLoop ==
  [pc |-> "fetchJob", fetches |-> 1, ending |-> 0, lastStatus |-> "none",
   resultFetched |-> FALSE, onComplete |-> 0, onError |-> 0,
   stopped |-> FALSE, afterStop |-> FALSE]

Active(l) == l.pc # "done"

\* the loop issues a request, writes to the store or calls a callback:
\* remembered when stopPolling has been called
Acting(l) == [l EXCEPT !.afterStop = l.stopped]

\* mutant: onError is called for a FAILED job and polling goes on
afterFetchJob_PollsOn(l, status) ==
  LET seen == [Acting(l) EXCEPT !.lastStatus = status]
  IN  IF status = "COMPLETED"
      THEN [seen EXCEPT !.pc = "fetchResult", !.ending = @ + 1]
      ELSE IF status = "FAILED"
      THEN [Acting(seen) EXCEPT
              !.pc = "timer", !.ending = @ + 1, !.onError = @ + 1]
      ELSE [seen EXCEPT !.pc = "timer"]

\* poll() after await get().fetchJob(jobId) has returned a job
afterFetchJob(l, status) ==
  LET seen == [Acting(l) EXCEPT !.lastStatus = status]
  IN  IF status = "COMPLETED"
      THEN [seen EXCEPT !.pc = "fetchResult", !.ending = @ + 1]
      ELSE IF status = "FAILED"
      THEN [Acting(seen) EXCEPT
              !.pc = "done", !.ending = @ + 1, !.onError = @ + 1]
      ELSE [seen EXCEPT !.pc = "timer"]

\* the catch block of poll()
afterError(l) ==
  [Acting(l) EXCEPT !.pc = "done", !.onError = @ + 1]

PollStep(name, i, outcome) ==
  /\ lastOp' = [name |-> name, id |-> i, arg |-> outcome,
                after |-> lastOp.name, fresh |-> TRUE]
  /\ UNCHANGED <<floorplan, pageFloorplan, selectedWall, dragging,
                 draggingState, roomClosed, floorAreaSqFt, prevFloorplan,
                 prevPage, passedIn, returned, emitted, threw, steps, trace,
                 currentProject, requests, authVars>>

\* pollJobStatus(jobId, onComplete, onError): isPolling is set and poll()
\* runs up to its first await
PollJobStatus ==
  /\ Len(loops) < MaxLoops
  /\ isPolling' = TRUE
  /\ loops' = Append(loops, NewLoop)
  /\ PollStep("pollJobStatus", Len(loops) + 1, "started")
  /\ UNCHANGED <<currentJob, currentResult>>

\* GET /simulations/:id of loop i is answered: fetchJob stores the job and
\* poll() goes on to fetchResult, to onError or to setTimeout
FetchJobResponse ==
  \E i \in 1 .. Len(loops), status \in JobStatuses :
    /\ loops[i].pc = "fetchJob"
    /\ currentJob' = [status |-> status]
    /\ loops' = [loops EXCEPT ![i] = afterFetchJob(@, status)]
    /\ isPolling' = IF status = "FAILED" THEN FALSE ELSE isPolling
    /\ PollStep("fetchJob", i, status)
    /\ UNCHANGED currentResult

\* GET /simulations/:id of loop i fails: fetchJob throws into the catch
FetchJobFailure ==
  \E i \in 1 .. Len(loops) :
    /\ loops[i].pc = "fetchJob"
    /\ loops' = [loops EXCEPT ![i] = [afterError(@) EXCEPT !.ending = @ + 1]]
    /\ isPolling' = FALSE
    /\ PollStep("fetchJob", i, "error")
    /\ UNCHANGED <<currentJob, currentResult>>

\* GET /simulations/:id/result of loop i is answered: fetchResult stores the
\* result, poll() clears isPolling and calls onComplete
FetchResultResponse ==
  \E i \in 1 .. Len(loops) :
    /\ loops[i].pc = "fetchResult"
    /\ currentResult' = "result"
    /\ loops' = [loops EXCEPT
                   ![i] = [Acting(@)
                             EXCEPT !.pc = "done", !.resultFetched = TRUE,
                                    !.onComplete = @ + 1]]
    /\ isPolling' = FALSE
    /\ PollStep("fetchResult", i, "result")
    /\ UNCHANGED currentJob

\* GET /simulations/:id/result of loop i fails: the catch block
FetchResultFailure ==
  \E i \in 1 .. Len(loops) :
    /\ loops[i].pc = "fetchResult"
    /\ loops' = [loops EXCEPT ![i] = afterError(@)]
    /\ isPolling' = FALSE
    /\ PollStep("fetchResult", i, "error")
    /\ UNCHANGED <<currentJob, currentResult>>

\* the timer of setTimeout(poll, 2000) of loop i fires: poll() issues the
\* next fetchJob
PollTimer ==
  \E i \in 1 .. Len(loops) :
    /\ loops[i].pc = "timer"
    /\ loops[i].fetches < MaxFetches
    /\ loops' = [loops EXCEPT
                   ![i] = [Acting(@) EXCEPT
                             !.pc = "fetchJob", !.fetches = @ + 1]]
    /\ PollStep("setTimeout", i, "poll")
    /\ UNCHANGED <<currentJob, currentResult, isPolling>>

\* stopPolling()
StopPolling ==
  /\ isPolling' = FALSE
  /\ loops' = [i \in 1 .. Len(loops) |->
                 IF Active(loops[i]) THEN [loops[i] EXCEPT !.stopped = TRUE]
                 ELSE loops[i]]
  /\ PollStep("stopPolling", 0, "stopped")
  /\ UNCHANGED <<currentJob, currentResult>>

\* SimulationPage has fetched a job that is still pending
InitPoll ==
  /\ Mounted(DefaultFloorplan)
  /\ currentProject = NoProject
  /\ requests = <<>>
  /\ currentJob = [status |-> "PENDING"]
  /\ currentResult = NoResult
  /\ isPolling = FALSE
  /\ loops = <<>>
  /\ SignedIn

NextPoll ==
  \/ PollJobStatus
  \/ FetchJobResponse
  \/ FetchJobFailure
  \/ FetchResultResponse
  \/ FetchResultFailure
  \/ PollTimer
  \/ StopPolling

SpecPoll == InitPoll /\ [][NextPoll]_vars

----------------------------------------------------------------------------
(* authStore: initialize, verifyToken and logout *)

\* calls of verifyToken and logout after the store is created
MaxAuthCalls == 3

\* a call of an operation of authStore. pc: the request the call awaits
\* ("verify": POST /auth/verify, "me": GET /auth/me) or "done"; failed: the
\* request it ended at was rejected
AuthCall(fn, pc) == [fn |-> fn, pc |-> pc, failed |-> FALSE]

Awaiting(i, fn, pc) ==
  /\ i \in 1 .. Len(authCalls)
  /\ authCalls[i].fn = fn
  /\ authCalls[i].pc = pc

Ended(i, failed) ==
  [authCalls EXCEPT ![i] = [@ EXCEPT !.pc = "done", !.failed = failed]]

\* initialize() has not been called: the store is as created
Created == isLoading /\ authCalls = <<>>

AuthStep ==
  UNCHANGED <<editorVars, trace, currentProject, requests, pollVars>>

\* initialize() at module load, up to its return or its await
Initialize ==
  /\ Created
  /\ IF localStorage = NoToken
     THEN /\ isLoading' = FALSE
          /\ isAuthenticated' = FALSE
          /\ authCalls' = <<AuthCall("initialize", "done")>>
     ELSE /\ authCalls' = <<AuthCall("initialize", "me")>>
          /\ UNCHANGED <<isLoading, isAuthenticated>>
  /\ UNCHANGED <<user, localStorage>>
  /\ AuthStep

\* GET /auth/me of initialize is answered
InitializeResponse ==
  \E i \in 1 .. Len(authCalls) :
    /\ Awaiting(i, "initialize", "me")
    /\ user' = "user"
    /\ isAuthenticated' = TRUE
    /\ isLoading' = FALSE
    /\ authCalls' = Ended(i, FALSE)
    /\ UNCHANGED localStorage
    /\ AuthStep

\* GET /auth/me of initialize is rejected: the catch block
InitializeFailure ==
  \E i \in 1 .. Len(authCalls) :
    /\ Awaiting(i, "initialize", "me")
    /\ localStorage' = NoToken
    /\ isLoading' = FALSE
    /\ isAuthenticated' = FALSE
    /\ authCalls' = Ended(i, TRUE)
    /\ UNCHANGED user
    /\ AuthStep

\* verifyToken(token) up to await api.post('/auth/verify')
VerifyToken ==
  /\ ~Created
  /\ Len(authCalls) <= MaxAuthCalls
  /\ authCalls' = Append(authCalls, AuthCall("verifyToken", "verify"))
  /\ UNCHANGED <<user, isAuthenticated, isLoading, localStorage>>
  /\ AuthStep

\* POST /auth/verify is answered: the access token is stored and GET
\* /auth/me is sent
VerifyResponse ==
  \E i \in 1 .. Len(authCalls) :
    /\ Awaiting(i, "verifyToken", "verify")
    /\ localStorage' = "access_token"
    /\ authCalls' = [authCalls EXCEPT ![i] = [@ EXCEPT !.pc = "me"]]
    /\ UNCHANGED <<user, isAuthenticated, isLoading>>
    /\ AuthStep

\* POST /auth/verify is rejected: verifyToken throws to its caller
VerifyFailure ==
  \E i \in 1 .. Len(authCalls) :
    /\ Awaiting(i, "verifyToken", "verify")
    /\ authCalls' = Ended(i, TRUE)
    /\ UNCHANGED <<user, isAuthenticated, isLoading, localStorage>>
    /\ AuthStep

\* GET /auth/me of verifyToken is answered
VerifyMeResponse ==
  \E i \in 1 .. Len(authCalls) :
    /\ Awaiting(i, "verifyToken", "me")
    /\ user' = "user"
    /\ isAuthenticated' = TRUE
    /\ authCalls' = Ended(i, FALSE)
    /\ UNCHANGED <<isLoading, localStorage>>
    /\ AuthStep

\* GET /auth/me of verifyToken is rejected: verifyToken throws
VerifyMeFailure ==
  \E i \in 1 .. Len(authCalls) :
    /\ Awaiting(i, "verifyToken", "me")
    /\ authCalls' = Ended(i, TRUE)
    /\ UNCHANGED <<user, isAuthenticated, isLoading, localStorage>>
    /\ AuthStep

\* logout()
Logout ==
  /\ ~Created
  /\ Len(authCalls) <= MaxAuthCalls
  /\ localStorage' = NoToken
  /\ user' = NoUser
  /\ isAuthenticated' = FALSE
  /\ authCalls' = Append(authCalls, AuthCall("logout", "done"))
  /\ UNCHANGED isLoading
  /\ AuthStep

\* authStore as created, with or without a token left by an earlier visit
InitAuth ==
  /\ Mounted(DefaultFloorplan)
  /\ currentProject = NoProject
  /\ requests = <<>>
  /\ SimulationStoreCreated
  /\ user = NoUser
  /\ isAuthenticated = FALSE
  /\ isLoading = TRUE
  /\ localStorage \in {NoToken, "access_token"}
  /\ authCalls = <<>>

NextAuth ==
  \/ Initialize
  \/ InitializeResponse
  \/ InitializeFailure
  \/ VerifyToken
  \/ VerifyResponse
  \/ VerifyFailure
  \/ VerifyMeResponse
  \/ VerifyMeFailure
  \/ Logout

SpecAuth == InitAuth /\ [][NextAuth]_vars

----------------------------------------------------------------------------
(* The snap helpers applied to points of the canvas *)

SnapFloorplans ==
  { WithWalls(WallsFrom(<< <<6, 0, 8, 20>>, <<30, 22, 30, 40>>,
                          <<10, 24, 50, 2>> >>)),
    WithWalls(WallsFrom(<< <<8, 0, 12, 40>>, <<12, 3, 8, 43>> >>)),
    WithWalls(WallsFrom(Square)) }

\* the dragged points given to the helpers
SnapInputs ==
  { Pt(10, 23), Pt(9, 1), Pt(21, 70), Pt(22, 40), Pt(2, 50), Pt(0, 3),
    Pt(50, 0), Pt(-50, 4), Pt(-50, -4), Pt(3, -60), Pt(30, 30), Pt(101, 98),
    Pt(0, 0), Pt(130, 170), Pt(102, 98) }

\* the anchors given to snapToRightAngle
SnapAnchors == { Pt(0, 0), Pt(20, 20), Pt(100, 0), Pt(-40, -3) }

HelperCalled(name, id, arg) ==
  /\ steps < MaxSnapCalls
  /\ steps' = steps + 1
  /\ lastOp' = [name |-> name, id |-> id, arg |-> arg, after |-> lastOp.name,
                fresh |-> TRUE]
  /\ prevFloorplan' = floorplan
  /\ prevPage' = pageFloorplan
  /\ passedIn' = LeftInPlace(floorplan)
  /\ emitted' = 0
  /\ threw' = FALSE
  /\ UNCHANGED <<floorplan, pageFloorplan, selectedWall, dragging,
                 draggingState, roomClosed, floorAreaSqFt>>
  /\ UNCHANGED outsideHandlers

SnapToRightAngle ==
  \E p \in SnapInputs, anchor \in SnapAnchors,
     rounding \in Roundings \X Roundings :
    /\ HelperCalled("snapToRightAngle", NoWall, [p |-> p, anchor |-> anchor])
    /\ returned' = <<snapToRightAngle(p.x, p.y, anchor.x, anchor.y, rounding)>>

SnapToAxis ==
  \E p \in SnapInputs, excludeWallId \in {NoWall} \cup IdSpace :
    /\ HelperCalled("snapToAxis", excludeWallId, p)
    /\ returned' = <<snapToAxis(floorplan, p.x, p.y, excludeWallId)>>

InitSnap == (\E fp \in SnapFloorplans : Mounted(fp)) /\ StoresCreated

NextSnap == SnapToRightAngle \/ SnapToAxis

SpecSnap == InitSnap /\ [][NextSnap]_vars

----------------------------------------------------------------------------
(* Properties of the Mutation API (checked under Spec) *)

WindowsOf(fp) == IF Has(fp, "windows") THEN fp.windows ELSE <<>>

DoorsOf(fp) == IF Has(fp, "doors") THEN fp.doors ELSE <<>>

HasWall(fp, id) == \E i \in 1 .. Len(WallsOf(fp)) : WallsOf(fp)[i].id = id

HasWindow(fp, id) ==
  \E i \in 1 .. Len(WindowsOf(fp)) : WindowsOf(fp)[i].id = id

HasDoor(fp, id) == \E i \in 1 .. Len(DoorsOf(fp)) : DoorsOf(fp)[i].id = id

\* new holds exactly the elements of old at the positions in kept, in order
KeptInOrder(old, new, kept) ==
  /\ Len(new) = Cardinality(kept)
  /\ \A i \in kept : new[Cardinality({j \in kept : j <= i})] = old[i]

OthersKept(old, new, wallId) ==
  KeptInOrder(old, new, {i \in 1 .. Len(old) : old[i].wall_id # wallId})

\* C1: the snapshot emitted by deleteWall(id) has no wall with that id and
\* no window or door whose wall_id is id; the windows and doors of other
\* walls are kept unchanged and in order.
C1_DeleteWallCascades ==
  (lastOp.name = "deleteWall" /\ emitted = 1) =>
     /\ ~HasWall(floorplan, lastOp.id)
     /\ \A i \in 1 .. Len(floorplan.windows) :
          floorplan.windows[i].wall_id # lastOp.id
     /\ \A i \in 1 .. Len(floorplan.doors) :
          floorplan.doors[i].wall_id # lastOp.id
     /\ OthersKept(WindowsOf(prevFloorplan), floorplan.windows, lastOp.id)
     /\ OthersKept(DoorsOf(prevFloorplan), floorplan.doors, lastOp.id)

\* deleteWall removed a wall with a window and a door, and kept two windows
\* and a door of another wall
C1_Witness ==
  /\ lastOp.name = "deleteWall"
  /\ emitted = 1
  /\ HasWall(prevFloorplan, lastOp.id)
  /\ Len(floorplan.windows) >= 2
  /\ Len(floorplan.windows) < Len(prevFloorplan.windows)
  /\ Len(floorplan.doors) >= 1
  /\ Len(floorplan.doors) < Len(prevFloorplan.doors)

NoDangling(fp) ==
  /\ \A i \in 1 .. Len(WindowsOf(fp)) : HasWall(fp, WindowsOf(fp)[i].wall_id)
  /\ \A i \in 1 .. Len(DoorsOf(fp)) : HasWall(fp, DoorsOf(fp)[i].wall_id)

MutationNames ==
  {"addWall", "updateWall", "updateWallLength", "deleteWall", "addWindow",
   "addDoor", "updateWindow", "updateDoor", "deleteWindow", "deleteDoor"}

\* C2 as stated: every Mutation API call on a floorplan without dangling
\* references emits a floorplan without dangling references, so that none
\* exists after any sequence of calls.
C2_NoDanglingAfterAnyCall ==
  (lastOp.name \in MutationNames /\ emitted = 1 /\ NoDangling(prevFloorplan))
     => NoDangling(floorplan)

\* the calls that can introduce a dangling reference: addWindow / addDoor
\* for an id that names no wall, an update that rewrites a wall's id or an
\* opening's wall_id
RewritesReference ==
  \/ /\ lastOp.name \in {"addWindow", "addDoor"}
     /\ ~HasWall(prevFloorplan, lastOp.arg)
  \/ /\ lastOp.name = "updateWall"
     /\ "id" \in DOMAIN lastOp.arg
  \/ /\ lastOp.name \in {"updateWindow", "updateDoor"}
     /\ "wall_id" \in DOMAIN lastOp.arg

\* C2 amended: the same, for the calls that pass addWindow / addDoor the id
\* of a present wall and do not rewrite a wall's id or an opening's wall_id.
C2_NoDanglingUnlessMisused ==
  (/\ lastOp.name \in MutationNames
   /\ emitted = 1
   /\ NoDangling(prevFloorplan)
   /\ ~RewritesReference)
     => NoDangling(floorplan)

\* a wall that carried a window was deleted from a floorplan without
\* dangling references
C2_Witness ==
  /\ lastOp.name = "deleteWall"
  /\ emitted = 1
  /\ NoDangling(prevFloorplan)
  /\ \E i \in 1 .. Len(WindowsOf(prevFloorplan)) :
       WindowsOf(prevFloorplan)[i].wall_id = lastOp.id
  /\ HasWall(prevFloorplan, lastOp.id)
  /\ Len(floorplan.walls) >= 1

\* |e - u / sqrt(n)| <= 1/2 for u >= 0: e is u / sqrt(n) on the grid
WithinHalf(e, u, n) ==
  /\ e >= 0
  /\ e = 0 \/ MulLeq((2 * e - 1) * (2 * e - 1), n, 2 * u, 2 * u)
  /\ MulLeq(2 * u, 2 * u, (2 * e + 1) * (2 * e + 1), n)

IsScaled(e, u, n) ==
  IF u >= 0 THEN WithinHalf(e, u, n) ELSE WithinHalf(-e, -u, n)

\* after is before with the end point moved to
\* start + (end - start) * newLength / currentLength, nothing else changed
Rescaled(before, after, newLength) ==
  LET dx == before.x2 - before.x1
      dy == before.y2 - before.y1
      lengthSq == dx * dx + dy * dy
  IN  /\ DOMAIN after = DOMAIN before
      /\ \A k \in DOMAIN before \ {"x2", "y2"} : after[k] = before[k]
      /\ IsScaled(after.x2 - before.x1, dx * newLength, lengthSq)
      /\ IsScaled(after.y2 - before.y1, dy * newLength, lengthSq)

\* C8: for a wall of non-zero length, updateWallLength(id, newLength) emits
\* a snapshot in which the wall keeps its start point and every field but
\* the end point, the end point is start + (end - start) * newLength /
\* currentLength, and the walls with another id and the rest of the
\* floorplan are unchanged; the wall (0,0)-(10,0) with newLength 20 ends at
\* (20,0).
C8_UpdateWallLengthRescales ==
  LET i == FindIndex(WallsOf(prevFloorplan), lastOp.id)
  IN  (/\ lastOp.name = "updateWallLength"
       /\ i # 0
       /\ ~ZeroLength(WallsOf(prevFloorplan)[i]))
        => /\ emitted = 1
           /\ ~threw
           /\ Len(floorplan.walls) = Len(prevFloorplan.walls)
           /\ Rescaled(prevFloorplan.walls[i], floorplan.walls[i], lastOp.arg)
           /\ \A j \in 1 .. Len(prevFloorplan.walls) :
                prevFloorplan.walls[j].id # lastOp.id
                  => floorplan.walls[j] = prevFloorplan.walls[j]
           /\ [floorplan EXCEPT !.walls = <<>>]
                = [prevFloorplan EXCEPT !.walls = <<>>]
           /\ (/\ StartOf(prevFloorplan.walls[i]) = Pt(0, 0)
               /\ EndOf(prevFloorplan.walls[i]) = Pt(100, 0)
               /\ lastOp.arg = 200)
                => EndOf(floorplan.walls[i]) = Pt(200, 0)

\* a wall that is neither horizontal nor vertical and does not start at the
\* origin was set to a new non-zero length
C8_Witness ==
  LET i == FindIndex(WallsOf(prevFloorplan), lastOp.id)
  IN  /\ lastOp.name = "updateWallLength"
      /\ emitted = 1
      /\ i # 0
      /\ prevFloorplan.walls[i].x1 # prevFloorplan.walls[i].x2
      /\ prevFloorplan.walls[i].y1 # prevFloorplan.walls[i].y2
      /\ prevFloorplan.walls[i].x1 # 0
      /\ floorplan.walls[i] # prevFloorplan.walls[i]
      /\ lastOp.arg > 0

\* the wall (0,0)-(10,0) was set to length 20
C8_ExampleWitness ==
  LET i == FindIndex(WallsOf(prevFloorplan), lastOp.id)
  IN  /\ lastOp.name = "updateWallLength"
      /\ i # 0
      /\ StartOf(prevFloorplan.walls[i]) = Pt(0, 0)
      /\ EndOf(prevFloorplan.walls[i]) = Pt(100, 0)
      /\ lastOp.arg = 200
      /\ EndOf(floorplan.walls[i]) = Pt(200, 0)

\* C9: updateWallLength on a wall of zero length, or with an id that names
\* no wall, emits no snapshot, throws nothing and leaves the floorplan
\* unchanged.
C9_UpdateWallLengthNoOp ==
  LET i == FindIndex(WallsOf(prevFloorplan), lastOp.id)
  IN  (/\ lastOp.name = "updateWallLength"
       /\ i = 0 \/ ZeroLength(WallsOf(prevFloorplan)[i]))
        => /\ emitted = 0
           /\ ~threw
           /\ floorplan = prevFloorplan

\* the entities of the kind the last call addresses
Addressed(fp) ==
  IF lastOp.name \in {"updateWall", "deleteWall"} THEN WallsOf(fp)
  ELSE IF lastOp.name \in {"updateWindow", "deleteWindow"} THEN WindowsOf(fp)
  ELSE DoorsOf(fp)

SameContent(a, b) ==
  /\ WallsOf(a) = WallsOf(b)
  /\ WindowsOf(a) = WindowsOf(b)
  /\ DoorsOf(a) = DoorsOf(b)
  /\ a.floor = b.floor
  /\ a.ceiling = b.ceiling
  /\ a.ventilation = b.ventilation

\* C10: updateWall, updateWindow, updateDoor, deleteWall, deleteWindow and
\* deleteDoor called with an id that names no entity of that kind raise no
\* error and leave the walls, windows, doors, floor, ceiling and ventilation
\* as they were, in the same order.
C10_UnknownIdIgnored ==
  (/\ lastOp.name \in {"updateWall", "updateWindow", "updateDoor",
                        "deleteWall", "deleteWindow", "deleteDoor"}
   /\ FindIndex(Addressed(prevFloorplan), lastOp.id) = 0)
     => /\ ~threw
        /\ SameContent(prevFloorplan, floorplan)

----------------------------------------------------------------------------
(* Properties of the Topology Validator, the Area Calculator and
   syncFloorCeilingArea (checked under SpecGeom) *)

\* within the 0.5 ft positional tolerance on both axes
WithinTolerance(p, q) ==
  IF Abs(p.x - q.x) > Abs(p.y - q.y) THEN Abs(p.x - q.x) < TOLERANCE
                                     ELSE Abs(p.y - q.y) < TOLERANCE

\* an endpoint of a different wall (a wall with another id) lies within
\* tolerance of point p of walls[i]
HasNeighbour(walls, i, p) ==
  \E j \in 1 .. Len(walls) :
    /\ walls[j].id # walls[i].id
    /\ WithinTolerance(p, StartOf(walls[j])) \/ WithinTolerance(p, EndOf(walls[j]))

EveryEndpointConnected(walls) ==
  \A i \in 1 .. Len(walls) :
    HasNeighbour(walls, i, StartOf(walls[i])) /\ HasNeighbour(walls, i, EndOf(walls[i]))

WallsAt(walls, p) ==
  {i \in 1 .. Len(walls) : StartOf(walls[i]) = p \/ EndOf(walls[i]) = p}

\* the vertices met when walking from point p along walls not yet walked,
\* joined at exactly matching endpoints
RECURSIVE RingFrom(_, _, _, _)
RingFrom(walls, walked, p, ring) ==
  IF WallsAt(walls, p) \ walked = {} THEN ring
  ELSE LET i == CHOOSE k \in WallsAt(walls, p) \ walked :
                  \A m \in WallsAt(walls, p) \ walked : k <= m
       IN  RingFrom(walls, walked \cup {i},
                    IF StartOf(walls[i]) = p THEN EndOf(walls[i])
                                             ELSE StartOf(walls[i]),
                    Append(ring, p))

VertexRing(walls) == RingFrom(walls, {}, StartOf(walls[1]), <<>>)

Cross(o, a, b) == (a.x - o.x) * (b.y - o.y) - (a.y - o.y) * (b.x - o.x)

Dot(o, a, b) == (a.x - o.x) * (b.x - o.x) + (a.y - o.y) * (b.y - o.y)

Sign(n) == IF n > 0 THEN 1 ELSE IF n < 0 THEN -1 ELSE 0

\* r lies on the segment from p to q
OnSegment(p, q, r) == Cross(p, q, r) = 0 /\ Dot(r, p, q) <= 0

SegmentsMeet(p1, q1, p2, q2) ==
  \/ /\ Sign(Cross(p1, q1, p2)) # Sign(Cross(p1, q1, q2))
     /\ Sign(Cross(p2, q2, p1)) # Sign(Cross(p2, q2, q1))
  \/ OnSegment(p1, q1, p2) \/ OnSegment(p1, q1, q2)
  \/ OnSegment(p2, q2, p1) \/ OnSegment(p2, q2, q1)

\* edges k and m of the ring touch only where consecutive edges share a
\* vertex
EdgesApart(ring, k, m) ==
  LET n == Len(ring)
      a == ring[k]
      b == ring[(k % n) + 1]
      c == ring[m]
      d == ring[(m % n) + 1]
  IN  IF b = c THEN ~(Cross(b, a, d) = 0 /\ Dot(b, a, d) > 0)
      ELSE IF d = a THEN ~(Cross(a, b, c) = 0 /\ Dot(a, b, c) > 0)
      ELSE ~SegmentsMeet(a, b, c, d)

DistinctIds(seq) ==
  \A i, j \in 1 .. Len(seq) : seq[i].id = seq[j].id => i = j

\* the walls, with ids unique within the floorplan, are the edges of one
\* simple closed polygon, consecutive walls meeting at equal endpoints
IsSimplePolygon(walls) ==
  /\ Len(walls) >= 3
  /\ Len(walls) <= 12
  /\ DistinctIds(walls)
  /\ \A i \in 1 .. Len(walls) :
       /\ ~ZeroLength(walls[i])
       /\ Cardinality(WallsAt(walls, StartOf(walls[i]))) = 2
       /\ Cardinality(WallsAt(walls, EndOf(walls[i]))) = 2
  /\ Len(VertexRing(walls)) = Len(walls)
  /\ \A k, m \in 1 .. Len(walls) :
       k < m => EdgesApart(VertexRing(walls), k, m)

\* twice the signed area of the ring, by the trapezoid formula
RECURSIVE TrapezoidSum(_, _)
TrapezoidSum(ring, i) ==
  IF i > Len(ring) THEN 0
  ELSE LET j == (i % Len(ring)) + 1
       IN  (ring[i].x - ring[j].x) * (ring[i].y + ring[j].y)
             + TrapezoidSum(ring, i + 1)

ReferenceArea(walls) == Abs(TrapezoidSum(VertexRing(walls), 1))

\* C4: for the walls of a simple closed polygon of 3 to 12 walls with
\* matching endpoints, in any order and orientation, calculateFloorArea is
\* the polygon's area by an independent reference; it is 100 for the 10x10
\* ft square.
C4_AreaOfSimplePolygon ==
  IsSimplePolygon(WallsOf(floorplan)) =>
    /\ floorAreaSqFt = ReferenceArea(WallsOf(floorplan))
    /\ floorplan.walls \in {WallsFrom(Square), WallsFrom(ShuffledSquare)}
         => floorAreaSqFt = 200 * 100

\* C5: calculateFloorArea returns 0, and nothing is thrown, when there are
\* fewer than 3 walls (the walls sequence may be absent) or isRoomClosed is
\* false; a positive result implies isRoomClosed.
C5_ZeroUnlessClosed ==
  /\ (Len(WallsOf(floorplan)) < 3 \/ ~roomClosed) => floorAreaSqFt = 0
  /\ floorAreaSqFt > 0 => roomClosed
  /\ ~threw

\* syncFloorCeilingArea ran on three walls that do not close, one of them
\* of zero length, and the area is 0
C5_Witness ==
  /\ lastOp.name = "handleMouseUp"
  /\ lastOp.id # NoWall
  /\ Len(WallsOf(floorplan)) = 3
  /\ \E i \in 1 .. 3 : ZeroLength(floorplan.walls[i])
  /\ ~roomClosed
  /\ floorAreaSqFt = 0

\* m2 (hundredths of a square metre) is area2 (1/200 ft^2) times 0.3048^2,
\* rounded to two decimals: |m2 * 1250 * 2500 - area2 * 381 * 381| is at
\* most half of 1250 * 2500
IsSquareMetres(m2, area2) ==
  LET n == FEET_TO_METERS_NUM * FEET_TO_METERS_NUM
      d == 2 * FEET_TO_METERS_DEN * FEET_TO_METERS_DEN
  IN  /\ m2 >= 0
      /\ m2 = 0 \/ MulLeq(2 * m2 - 1, d, 2 * area2, n)
      /\ MulLeq(2 * area2, n, 2 * m2 + 1, d)

\* syncFloorCeilingArea was called: the pointer was released while dragging
SyncCalled == lastOp.name = "handleMouseUp" /\ lastOp.id # NoWall

\* C6 as stated: for any wall set, syncFloorCeilingArea emits one snapshot
\* whose floor.area and ceiling.area both hold the converted
\* calculateFloorArea of the current walls.
C6_SyncAlwaysWrites ==
  SyncCalled =>
    /\ emitted = 1
    /\ floorplan.floor.area = floorplan.ceiling.area
    /\ IsSquareMetres(floorplan.floor.area, calculateFloorArea(prevFloorplan))

\* C6 amended: when calculateFloorArea is positive, syncFloorCeilingArea
\* emits one snapshot that differs from the floorplan only in floor.area and
\* ceiling.area, both holding the area times 0.3048^2 rounded to two
\* decimals (9.29 for the 10x10 ft square); when it is 0, no snapshot is
\* emitted and both areas keep their values.
C6_SyncWritesPositiveArea ==
  SyncCalled =>
    IF calculateFloorArea(prevFloorplan) > 0
    THEN /\ emitted = 1
         /\ floorplan.floor.area = floorplan.ceiling.area
         /\ IsSquareMetres(floorplan.floor.area,
                           calculateFloorArea(prevFloorplan))
         /\ [floorplan EXCEPT !.floor.area = 0, !.ceiling.area = 0]
              = [prevFloorplan EXCEPT !.floor.area = 0, !.ceiling.area = 0]
         /\ prevFloorplan.walls = WallsFrom(Square)
              => floorplan.floor.area = 929
    ELSE emitted = 0 /\ floorplan = prevFloorplan

\* the areas of the 10x10 ft square were written
C6_Witness ==
  /\ SyncCalled
  /\ emitted = 1
  /\ prevFloorplan.walls = WallsFrom(ShuffledSquare)
  /\ prevFloorplan.floor.area = 2000
  /\ floorplan.floor.area = 929
  /\ floorplan.ceiling.area = 929

----------------------------------------------------------------------------
(* Properties of the drag snap (checked under SpecDrag) *)

DraggedWall(fp) == WallsOf(fp)[FindIndex(WallsOf(fp), dragging.wallId)]

\* handleMouseMove has placed the dragged endpoint at snap(p), the editor
\* has rendered, and handleMouseMove has been called with the pointer at
\* snap(p)
MovedToSnapped ==
  /\ lastOp.name = "handleMouseMove"
  /\ lastOp.after = "handleMouseMove"
  /\ lastOp.fresh
  /\ lastOp.id # NoWall
  /\ FindIndex(WallsOf(prevFloorplan), dragging.wallId) # 0
  /\ lastOp.arg = DraggedOf(DraggedWall(prevFloorplan), dragging.endpoint)

\* C7 as stated: the drag snap is idempotent, snap(snap(p, a, others), a,
\* others) = snap(p, a, others) for every dragged point, anchor and set of
\* other walls' endpoints.
C7_SnapIdempotent ==
  MovedToSnapped =>
    DraggedOf(DraggedWall(pageFloorplan), dragging.endpoint) = lastOp.arg

\* C7 amended: snap(snap(p, a, others), a, others) = snap(p, a, others)
\* whenever the right-angle correction about the anchor leaves snap(p, a,
\* others) in place.
C7_SnapIdempotentOffAxis ==
  (/\ MovedToSnapped
   /\ RightAngleSnap(AnchorOf(DraggedWall(prevFloorplan), dragging.endpoint),
                     lastOp.arg) = lastOp.arg)
     => /\ DraggedOf(DraggedWall(pageFloorplan), dragging.endpoint)
             = lastOp.arg
        /\ pageFloorplan = prevFloorplan

\* the dragged endpoint was snapped onto an endpoint of another wall, with
\* a second endpoint within the snap radius, and a further move at that
\* position left it there
C7_Witness ==
  /\ MovedToSnapped
  /\ lastOp.arg = Pt(60, 36)
  /\ DraggedOf(DraggedWall(pageFloorplan), dragging.endpoint) = Pt(60, 36)
  /\ EndOf(DraggedWall(pageFloorplan)) # StartOf(DraggedWall(pageFloorplan))

----------------------------------------------------------------------------
(* Snapshots, addWall and ids *)

MutationOps ==
  {"addWall", "addWindow", "addDoor", "updateWindow", "deleteWindow",
   "updateDoor", "deleteDoor", "updateWall", "updateWallLength",
   "deleteWall", "updateFloorCeiling", "updateVentilation"}

BesidesWalls(fp) ==
  [windows |-> fp.windows, doors |-> fp.doors, floor |-> fp.floor,
   ceiling |-> fp.ceiling, ventilation |-> fp.ventilation,
   absent |-> fp.absent \ {"walls"}]

\* C12: addWall appends exactly one wall at the end of the walls sequence
\* and leaves the existing walls, the windows, doors, floor, ceiling and
\* ventilation unchanged; the new wall starts at the previous last wall's
\* end point, or at (2, 2) when there was no wall.
C12_AddWallAppends ==
  lastOp.name = "addWall" =>
    LET old == WallsOf(prevFloorplan)
        new == WallsOf(pageFloorplan)
    IN  /\ emitted = 1
        /\ Has(pageFloorplan, "walls")
        /\ Len(new) = Len(old) + 1
        /\ SubSeq(new, 1, Len(old)) = old
        /\ StartOf(new[Len(new)]) =
             IF Len(old) > 0 THEN EndOf(old[Len(old)]) ELSE Pt(20, 20)
        /\ BesidesWalls(pageFloorplan) = BesidesWalls(prevFloorplan)

\* addWall on a floorplan with two walls, three windows and three doors:
\* the third wall starts where the second ends
C12_Witness ==
  /\ lastOp.name = "addWall"
  /\ Len(WallsOf(prevFloorplan)) = 2
  /\ Len(WindowsOf(prevFloorplan)) = 3
  /\ Len(WallsOf(pageFloorplan)) = 3
  /\ StartOf(pageFloorplan.walls[3]) = EndOf(prevFloorplan.walls[2])

\* addWall on a floorplan without walls: the wall starts at (2, 2)
C12_WitnessFirstWall ==
  /\ lastOp.name = "addWall"
  /\ Len(WallsOf(prevFloorplan)) = 0
  /\ StartOf(pageFloorplan.walls[1]) = Pt(20, 20)

AllIdsDistinct(fp) ==
  /\ DistinctIds(WallsOf(fp))
  /\ DistinctIds(WindowsOf(fp))
  /\ DistinctIds(DoorsOf(fp))

\* C13: every entity created by addWall, addWindow or addDoor receives a
\* fresh id: a Mutation API operation on a floorplan whose wall ids, window
\* ids and door ids are pairwise distinct emits a floorplan in which they
\* are pairwise distinct.
C13_IdsStayDistinct ==
  (lastOp.name \in MutationOps /\ AllIdsDistinct(prevFloorplan))
    => AllIdsDistinct(pageFloorplan)

----------------------------------------------------------------------------
(* Properties of a drag (checked under SpecDrag) *)

\* handleMouseMove ran between a mouse down on a handle and the mouse up
\* or mouse leave that follows it
ActiveMove == lastOp.name = "handleMouseMove" /\ draggingState # NoDrag

\* the wall as it reads when its dragged end point is put at p
WithEndpointAt(wall, endpoint, p) ==
  IF endpoint = "start" THEN [wall EXCEPT !.x1 = p.x, !.y1 = p.y]
                        ELSE [wall EXCEPT !.x2 = p.x, !.y2 = p.y]

\* new differs from old at most in the two coordinates of the dragged end
\* point of the dragged wall
OnlyEndpointMoved(old, new, drag) ==
  /\ BesidesWalls(new) = BesidesWalls(old)
  /\ Has(new, "walls")
  /\ Len(new.walls) = Len(old.walls)
  /\ \A i \in 1 .. Len(old.walls) :
       IF old.walls[i].id = drag.wallId
       THEN WithEndpointAt(new.walls[i], drag.endpoint,
                           DraggedOf(old.walls[i], drag.endpoint))
              = old.walls[i]
       ELSE new.walls[i] = old.walls[i]

\* handleMouseUp or onMouseLeave ran while the handler saw a drag
ReleaseCalled ==
  lastOp.name \in {"handleMouseUp", "onMouseLeave"} /\ lastOp.id # NoWall

C14_WitnessSync ==
  /\ ReleaseCalled
  /\ emitted = 1
  /\ pageFloorplan.walls = prevFloorplan.walls
  /\ pageFloorplan.floor.area # prevFloorplan.floor.area

\* onMouseLeave ran while the handler saw a drag
LeaveCalled == lastOp.name = "onMouseLeave" /\ lastOp.id # NoWall

\* what EditorPage holds after syncFloorCeilingArea on the floorplan fp
Synced(fp) ==
  IF syncFloorCeilingArea(fp) # <<>> THEN syncFloorCeilingArea(fp)[1] ELSE fp

\* the walls stay where the last move put them and the areas are synced
C15_LeaveKeepsLastMove ==
  LeaveCalled =>
    /\ draggingState = NoDrag
    /\ WallsOf(pageFloorplan) = WallsOf(prevPage)
    /\ pageFloorplan = Synced(prevPage)

\* a move after the drag has ended changes nothing
C15_MoveAfterLeaveIgnored ==
  (lastOp.name = "handleMouseMove" /\ draggingState = NoDrag)
    => pageFloorplan = prevPage

\* C15: a mouse leave during a drag has the effect of a mouse up: the drag
\* ends, the dragged wall keeps the coordinates committed by the last mouse
\* move, the area sync is run, and later mouse moves leave the floorplan
\* unchanged until the next mouse down on a handle.
C15_LeaveCompletesDrag == C15_LeaveKeepsLastMove /\ C15_MoveAfterLeaveIgnored

\* the same, for handlers that run in an editor that has rendered the
\* floorplan and dragging state in force
C15_LeaveCompletesDragWhenRendered ==
  /\ (LeaveCalled /\ lastOp.fresh) => C15_LeaveKeepsLastMove
  /\ lastOp.fresh => C15_MoveAfterLeaveIgnored

----------------------------------------------------------------------------
(* onChange *)

\* updateWallLength returned at one of its two early returns
ReturnedEarly ==
  /\ lastOp.name = "updateWallLength"
  /\ LET i == FindIndex(WallsOf(prevFloorplan), lastOp.id)
     IN  i = 0 \/ ZeroLength(WallsOf(prevFloorplan)[i])

C16_WitnessMove ==
  /\ ActiveMove
  /\ emitted = 1
  /\ pageFloorplan # prevPage

----------------------------------------------------------------------------
(* Properties of the snap helpers (checked under SpecSnap) *)

\* the angle of (a, b) from the positive a axis is within 10 degrees
NearAngle(a, b) == a > 0 /\ Abs(b) * TAN10_DEN < a * TAN10_NUM

\* the arguments and the result of the last snapToRightAngle call
RightAngleCalled == lastOp.name = "snapToRightAngle"

Dragged == lastOp.arg.p

Anchor == lastOp.arg.anchor

Dx == Dragged.x - Anchor.x

Dy == Dragged.y - Anchor.y

LongEnough == Dx * Dx + Dy * Dy >= 25

NearHorizontal == NearAngle(Dx, Dy) \/ NearAngle(-Dx, Dy)

NearVertical == NearAngle(Dy, Dx) \/ NearAngle(-Dy, Dx)

\* r is on the line through the anchor and as far from it as the dragged
\* point, to the resolution of the grid
OnAxisAtLength(r) ==
  /\ NearHorizontal =>
       r.y = Anchor.y /\ Abs(r.x - Anchor.x) = RoundSqrt(Dx * Dx + Dy * Dy)
  /\ NearVertical =>
       r.x = Anchor.x /\ Abs(r.y - Anchor.y) = RoundSqrt(Dx * Dx + Dy * Dy)

\* r is the very double it stands for
Exact(r) == r.epsX = 0 /\ r.epsY = 0

C17_WitnessHorizontal ==
  /\ RightAngleCalled
  /\ Dragged = Pt(-50, -4)
  /\ Anchor = Pt(0, 0)
  /\ returned[1] = [x |-> -50, y |-> 0, epsX |-> 0, epsY |-> -1]

\* a point 45 degrees off the axes comes back as it was, up to rounding
C17_WitnessNoAngle ==
  /\ RightAngleCalled
  /\ Dragged = Pt(30, 30)
  /\ Anchor = Pt(0, 0)
  /\ returned[1].x = 30
  /\ returned[1].y = 30
  /\ RightAngleStep(Anchor, Dragged) = [x |-> 30, y |-> 30, epsX |-> 0, epsY |-> 0]

AxisCalled == lastOp.name = "snapToAxis"

\* the index of the first point whose coordinate on the axis is within
\* 0.3 ft of v, 0 when there is none
FirstWithin(points, axis, v) ==
  LET matching == {k \in 1 .. Len(points) : Abs(points[k][axis] - v) < 3}
  IN  IF matching = {} THEN 0
      ELSE CHOOSE k \in matching : \A m \in matching : k <= m

\* C19: snapToAxis resolves X and Y independently and once each: the
\* returned x is the X of the first endpoint, in wall order and leaving out
\* the given wall, whose X is within 0.3 ft of the input x, or the input x;
\* the returned y is determined in the same way from the Y values; xSnapped
\* and ySnapped are true exactly when the axis matched.
C19_AxisSnapFirstMatch ==
  AxisCalled =>
    LET points == getSnapPoints(prevFloorplan, lastOp.id)
        i == FirstWithin(points, "x", lastOp.arg.x)
        j == FirstWithin(points, "y", lastOp.arg.y)
    IN  /\ returned[1].x = IF i = 0 THEN lastOp.arg.x ELSE points[i].x
        /\ returned[1].y = IF j = 0 THEN lastOp.arg.y ELSE points[j].y
        /\ returned[1].xSnapped = (i # 0)
        /\ returned[1].ySnapped = (j # 0)
        /\ \A k \in 1 .. Len(points) : points[k].wallId # lastOp.id

\* (1.0, 2.3) with endpoint X values 0.6, 0.8, 3.0, 3.0, 1.0, 5.0 and Y
\* values 0, 2.0, 2.2, 4.0, 2.4, 0.2: x from the second endpoint, y from
\* the third
C19_Witness ==
  /\ AxisCalled
  /\ lastOp.id = NoWall
  /\ lastOp.arg = Pt(10, 23)
  /\ returned[1] = [x |-> 8, y |-> 22, xSnapped |-> TRUE, ySnapped |-> TRUE]

\* (0, 0.3) with the same endpoints: no X within 0.3 ft, the Y value 0 is
\* at 0.3 ft exactly and does not match, the Y value 0.2 does
C19_WitnessOneAxis ==
  /\ AxisCalled
  /\ lastOp.arg = Pt(0, 3)
  /\ lastOp.id = NoWall
  /\ returned[1] = [x |-> 0, y |-> 2, xSnapped |-> FALSE, ySnapped |-> TRUE]

\* snapToAxis applied to the point it returned
AxisAgain ==
  snapToAxis(prevFloorplan, returned[1].x, returned[1].y, lastOp.id)

\* C20 as stated: snapToAxis is idempotent: for every point and every set
\* of other endpoints, snapToAxis applied to the point it returned returns
\* that point.
C20_AxisSnapIdempotent ==
  AxisCalled => (AxisAgain.x = returned[1].x /\ AxisAgain.y = returned[1].y)

\* any two of the points have, on each axis, the same coordinate or
\* coordinates at least 0.3 ft apart
AxesSeparated(points) ==
  \A k, m \in 1 .. Len(points) :
    /\ points[k].x = points[m].x \/ Abs(points[k].x - points[m].x) >= 3
    /\ points[k].y = points[m].y \/ Abs(points[k].y - points[m].y) >= 3

\* C20 amended: snapToAxis applied to the point it returned returns that
\* point whenever any two of the other endpoints have, on each axis, equal
\* coordinates or coordinates at least 0.3 ft apart.
C20_AxisSnapIdempotentWhenSeparated ==
  (AxisCalled /\ AxesSeparated(getSnapPoints(prevFloorplan, lastOp.id)))
    => AxisAgain = returned[1]

\* (1.0, 2.3) between the X values 0.8 and 1.2, 0.4 ft apart: snapped to
\* 0.8, the first, and again to 0.8
C20_Witness ==
  /\ AxisCalled
  /\ AxesSeparated(getSnapPoints(prevFloorplan, lastOp.id))
  /\ lastOp.id = NoWall
  /\ lastOp.arg = Pt(10, 23)
  /\ returned[1].x = 8
  /\ AxisAgain = returned[1]

\* (10.2, 9.8) snapped to the corner (10, 10) of the square, and again
C20_WitnessSquare ==
  /\ AxisCalled
  /\ AxesSeparated(getSnapPoints(prevFloorplan, lastOp.id))
  /\ lastOp.arg = Pt(102, 98)
  /\ returned[1].x = 100
  /\ returned[1].y = 100
  /\ AxisAgain = returned[1]

----------------------------------------------------------------------------
(* The endpoint snap of a drag (checked under SpecDrag) *)

\* the wall that the last mouse move dragged, before and after the move
WallBefore ==
  prevFloorplan.walls[FindIndex(prevFloorplan.walls, draggingState.wallId)]

WallAfter ==
  pageFloorplan.walls[FindIndex(pageFloorplan.walls, draggingState.wallId)]

\* the pointer position after the right-angle step
Corrected ==
  RightAngleSnap(AnchorOf(WallBefore, draggingState.endpoint), lastOp.arg)

\* the coordinates committed to the dragged end point
Committed == DraggedOf(WallAfter, draggingState.endpoint)

\* the end points of the walls w that are less than 1 ft from p
EndpointsNear(walls, p) ==
  {q \in {StartOf(walls[k]) : k \in 1 .. Len(walls)}
           \cup {EndOf(walls[k]) : k \in 1 .. Len(walls)} :
     DistSq(p.x, p.y, q) < 100}

OtherWalls == SelectSeq(prevFloorplan.walls,
                        LAMBDA w : w.id # draggingState.wallId)

OwnWall == SelectSeq(prevFloorplan.walls,
                     LAMBDA w : w.id = draggingState.wallId)

\* C18: the endpoint snap has final priority in a drag: whenever an end
\* point of a wall other than the dragged one is within 1 ft of the
\* angle-corrected point, the coordinates committed to the dragged end
\* point are those of such an end point; the end points of the dragged
\* wall are never candidates, and when no other end point is within 1 ft
\* the angle-corrected point is committed unchanged.
C18_EndpointSnapLast ==
  (ActiveMove /\ emitted = 1) =>
    IF EndpointsNear(OtherWalls, Corrected) # {}
    THEN Committed \in EndpointsNear(OtherWalls, Corrected)
    ELSE Committed = Corrected

\* the pointer at (0.3, 0.3) with the anchor at (0, 10): the right-angle
\* step gives (0, 0.3), the corner (0, 0) of another wall overrides it
C18_Witness ==
  /\ ActiveMove
  /\ emitted = 1
  /\ lastOp.arg = Pt(3, 3)
  /\ Corrected = Pt(0, 3)
  /\ Committed = Pt(0, 0)
  /\ Committed \in EndpointsNear(OtherWalls, Corrected)

\* both end points of the dragged wall are within 1 ft of the pointer and
\* no other end point is: the pointer position is committed
C18_WitnessOwnWall ==
  /\ ActiveMove
  /\ emitted = 1
  /\ EndpointsNear(OtherWalls, Corrected) = {}
  /\ Cardinality(EndpointsNear(OwnWall, Corrected)) = 2
  /\ Committed = lastOp.arg
  /\ Committed \notin EndpointsNear(OwnWall, Corrected)

\* the pointer at (6, 2), exactly 1 ft from the end points (6, 1) and (6, 3)
\* of other walls: the comparison is strict and the pointer position is
\* committed
C18_WitnessAtThreshold ==
  /\ ActiveMove
  /\ emitted = 1
  /\ lastOp.arg = Pt(60, 20)
  /\ Corrected = Pt(60, 20)
  /\ Committed = Pt(60, 20)
  /\ \E k \in 1 .. Len(OtherWalls) :
       DistSq(60, 20, StartOf(OtherWalls[k])) = 100

----------------------------------------------------------------------------
(* Properties of the polygon trace (checked under SpecTrace) *)

NoRepeats(seq) ==
  \A i \in 1 .. Len(seq), j \in 1 .. Len(seq) : seq[i] = seq[j] => i = j

\* the passes made so far: every one took a wall, except a last one that
\* found none and left the loop
EachPassMarksOrStops ==
  /\ trace.iterations
       = Len(trace.visited) - 1 + (IF trace.stopped THEN 1 ELSE 0)
  /\ trace.stopped => ~trace.running
  /\ trace.usedWalls = {trace.walls[trace.visited[k]].id :
                          k \in 1 .. Len(trace.visited)}
  /\ Cardinality(trace.usedWalls) = Len(trace.visited)

\* C21: the trace of calculateFloorArea ends on every wall set: each pass
\* of its loop either marks one wall that was not visited before or leaves
\* the loop, so there are at most |walls| passes, no wall is visited twice,
\* and the vertices collected at the end are those the area is computed of
C21_TraceTerminates ==
  (trace.called /\ Len(trace.visited) > 0) =>
    /\ EachPassMarksOrStops
    /\ NoRepeats(trace.visited)
    /\ trace.iterations <= Len(trace.walls)
    /\ trace.iterations = Len(trace.walls) => ~trace.running
    /\ ~trace.running => trace.vertices = TracedVertices(floorplan)

\* the trace has ended on a closed wall set in which two walls share an id,
\* leaving a wall unvisited
C21_Witness ==
  /\ trace.called
  /\ ~trace.running
  /\ trace.stopped
  /\ ~NoRepeats([k \in 1 .. Len(trace.walls) |-> trace.walls[k].id])
  /\ Len(trace.visited) < Len(trace.walls)
  /\ trace.iterations >= 3

\* the trace has ended by consuming all walls of the plus-shaped room
C21_WitnessAllConsumed ==
  /\ trace.called
  /\ ~trace.running
  /\ ~trace.stopped
  /\ Len(trace.walls) = 12
  /\ trace.visited = [k \in 1 .. 12 |-> k]

\* the trace stopped inside a branching wall set (a square and a diagonal)
C21_WitnessBranching ==
  /\ trace.called
  /\ ~trace.running
  /\ Len(trace.walls) = 5
  /\ \E k \in 1 .. 5 : /\ trace.walls[k].x1 = 0 /\ trace.walls[k].y1 = 0
                       /\ trace.walls[k].x2 = 100 /\ trace.walls[k].y2 = 100
                       /\ trace.walls[k].id = 5

----------------------------------------------------------------------------
(* Drag completion *)

\* C22: the snapshot the area sync emits when a drag is completed holds the
\* walls as the last mouse move of the drag committed them, and its areas
\* are those of these walls, also when the mouse up is handled before the
\* editor has rendered the snapshot of that move.
C22_SyncKeepsLastMove ==
  (ReleaseCalled /\ emitted = 1) =>
    /\ WallsOf(pageFloorplan) = WallsOf(prevPage)
    /\ pageFloorplan.floor.area = AreaToM2(calculateFloorArea(prevPage))
    /\ pageFloorplan.ceiling.area = AreaToM2(calculateFloorArea(prevPage))

\* the same, for a release handled by an editor that has rendered the last
\* snapshot
C22_SyncKeepsLastMoveWhenRendered == lastOp.fresh => C22_SyncKeepsLastMove

----------------------------------------------------------------------------
(* Positions of windows and doors (checked under Spec) *)

\* position in [0, 1], in hundredths
InRange(position) == 0 <= position /\ position <= 100

PositionsInRange(fp) ==
  /\ \A i \in 1 .. Len(WindowsOf(fp)) : InRange(WindowsOf(fp)[i].position)
  /\ \A i \in 1 .. Len(DoorsOf(fp)) : InRange(DoorsOf(fp)[i].position)

\* a Mutation API call has returned on a floorplan with positions in range
CalledInRange ==
  lastOp.name \in MutationOps /\ ~threw /\ PositionsInRange(prevFloorplan)

\* the call was updateWindow or updateDoor with a position outside [0, 1]
PositionOutOfRangeGiven ==
  /\ lastOp.name \in {"updateWindow", "updateDoor"}
  /\ "position" \in DOMAIN lastOp.arg
  /\ ~InRange(lastOp.arg.position)

\* C23: every Mutation API call made on a floorplan whose windows and doors
\* all have a position within [0, 1] leaves a floorplan of which the same
\* is true.
C23_PositionsStayInRange == CalledInRange => PositionsInRange(pageFloorplan)

\* the same for the calls that are not given a position outside [0, 1];
\* addWindow and addDoor create the positions 0.5 and 0.3
C23_PositionsStayInRangeUnlessGiven ==
  /\ (CalledInRange /\ ~PositionOutOfRangeGiven)
       => PositionsInRange(pageFloorplan)
  /\ (CalledInRange /\ lastOp.name = "addWindow") =>
       pageFloorplan.windows[Len(pageFloorplan.windows)].position = 50
  /\ (CalledInRange /\ lastOp.name = "addDoor") =>
       pageFloorplan.doors[Len(pageFloorplan.doors)].position = 30

\* a door was added, then a window of the floorplan was moved to 0.8
C23_Witness ==
  /\ CalledInRange
  /\ lastOp.name = "updateWindow"
  /\ lastOp.after = "addDoor"
  /\ lastOp.arg = [position |-> 80]
  /\ \E i \in 1 .. Len(WindowsOf(pageFloorplan)) :
       /\ pageFloorplan.windows[i].position = 80
       /\ prevFloorplan.windows[i].position = 50
  /\ \E i \in 1 .. Len(DoorsOf(pageFloorplan)) :
       pageFloorplan.doors[i].position = 30

----------------------------------------------------------------------------
(* Exceptions (checked under Spec) *)

\* C24: no Mutation API operation ends with an exception: every call
\* returns normally on every floorplan, also on one whose walls, windows or
\* doors sequence is absent.
C24_NoException == lastOp.name \in MutationOps => ~threw

\* the same on floorplans that hold the sequence the operation reads
C24_NoExceptionWhenPresent ==
  (lastOp.name \in MutationOps /\ prevFloorplan.absent = {}) => ~threw

----------------------------------------------------------------------------
(* The vertex ring of a closed room (checked under SpecTrace) *)

\* calculateFloorArea has run to the end of its trace on a wall set with
\* pairwise distinct ids that isRoomClosed reports closed
ClosedTraced ==
  /\ trace.called
  /\ ~trace.running
  /\ roomClosed
  /\ DistinctIds(WallsOf(floorplan))

\* C25: on a wall set with pairwise distinct ids that isRoomClosed reports
\* closed, the trace of calculateFloorArea collects at least 3 vertices, so
\* the result is the shoelace value of the traced ring.
C25_ClosedTraceHasRing ==
  ClosedTraced =>
    /\ Len(trace.vertices) >= 3
    /\ floorAreaSqFt = Abs(ShoelaceSum(trace.vertices, 1))

\* the loose triangle, given out of order and with one wall reversed, was
\* traced into a ring of exactly three vertices with a positive area
C25_Witness ==
  /\ ClosedTraced
  /\ floorplan.walls = WallsFrom(LooseTriangle)
  /\ Len(trace.vertices) = 3
  /\ trace.visited = <<1, 3, 2>>
  /\ floorAreaSqFt > 0

\* of two disjoint triangles the trace collected the first and stopped
C25_WitnessDisjoint ==
  /\ ClosedTraced
  /\ floorplan.walls = WallsFrom(Triangle \o FarTriangle)
  /\ trace.stopped
  /\ Len(trace.vertices) = 4
  /\ floorAreaSqFt = 100 * 100

----------------------------------------------------------------------------
(* The area sync at area 0 *)

\* C26: when calculateFloorArea of the current walls is 0, the area sync
\* emits no snapshot: onChange is not called and floor.area and
\* ceiling.area keep their values; a sync never writes an area that is
\* zero or negative.
C26_NoSyncAtZeroArea ==
  ReleaseCalled =>
    /\ calculateFloorArea(prevPage) = 0 =>
         emitted = 0 /\ pageFloorplan = prevPage
    /\ emitted = 1 =>
         pageFloorplan.floor.area > 0 /\ pageFloorplan.ceiling.area > 0

\* the first half of the above for a sync that runs in an editor that has
\* rendered the current floorplan
C26_NoSyncAtZeroAreaWhenRendered ==
  (ReleaseCalled /\ lastOp.fresh /\ calculateFloorArea(prevPage) = 0) =>
    emitted = 0 /\ pageFloorplan = prevPage

\* the second half of the above: no sync writes a zero or negative area
C26_SyncWritesNoZero ==
  (ReleaseCalled /\ emitted = 1) =>
    pageFloorplan.floor.area > 0 /\ pageFloorplan.ceiling.area > 0

----------------------------------------------------------------------------
(* Saving while editing (checked under SpecSave) *)

\* the response of a save request has been processed
SaveCompleted == lastOp.name = "updateProject"

\* C27: completing a save leaves the floorplan state of the editor as it
\* was: an edit made after the save request was issued and before its
\* response was processed is still there afterwards, and the state is never
\* replaced by an older floorplan.
C27_SaveKeepsEdits == SaveCompleted => pageFloorplan = prevPage

\* a save was completed with no edit since the request: the state is the
\* floorplan that was sent
C27_SaveWithoutEdit ==
  (SaveCompleted /\ prevPage = requests[lastOp.id].floorplan)
    => pageFloorplan = prevPage

----------------------------------------------------------------------------
(* Polling (checked under SpecPoll) *)

\* the loop has not met a COMPLETED or FAILED job nor a failing fetch
StillPolling(l) == l.ending = 0

\* C28: a polling loop goes on fetching the job while the status it gets is
\* neither COMPLETED nor FAILED, and ends at the first fetch that returns
\* COMPLETED or FAILED or that fails: it then issues no further fetchJob,
\* isPolling is set to false, and exactly one of onComplete and onError is
\* called, once, onComplete only after the result was fetched.
C28_PollingEnds ==
  /\ \A i \in 1 .. Len(loops) :
       LET l == loops[i]
       IN  /\ StillPolling(l) => l.pc \in {"fetchJob", "timer"}
           /\ l.ending <= 1
           /\ l.ending = 1 => l.pc \in {"fetchResult", "done"}
           /\ Active(l) => l.onComplete = 0 /\ l.onError = 0
           /\ ~Active(l) => l.onComplete + l.onError = 1
           /\ l.onComplete = 1 =>
                l.resultFetched /\ l.lastStatus = "COMPLETED"
           /\ l.pc = "fetchResult" => l.lastStatus = "COMPLETED"
  /\ \A i \in 1 .. Len(loops) :
       (lastOp.name \in {"fetchJob", "fetchResult"} /\ lastOp.id = i
          /\ ~Active(loops[i])) => ~isPolling

\* a loop fetched the job twice, met COMPLETED at the second fetch, fetched
\* the result and called onComplete
C28_Witness ==
  \E i \in 1 .. Len(loops) :
    /\ loops[i].fetches = 2
    /\ loops[i].pc = "done"
    /\ loops[i].onComplete = 1
    /\ loops[i].onError = 0
    /\ currentJob.status = "COMPLETED"
    /\ currentResult # NoResult
    /\ ~isPolling

\* a loop ended with onError at a job reported FAILED
C28_WitnessFailed ==
  \E i \in 1 .. Len(loops) :
    /\ loops[i].pc = "done"
    /\ loops[i].lastStatus = "FAILED"
    /\ loops[i].onError = 1
    /\ loops[i].fetches = 2

\* C29: after stopPolling is called while a polling loop is active, that
\* loop issues no further fetchJob, does not change currentJob or
\* currentResult and calls neither onComplete nor onError; isPolling is
\* true exactly while a polling loop is active.
C29_StopPollingStops ==
  /\ \A i \in 1 .. Len(loops) : ~loops[i].afterStop
  /\ isPolling <=> \E i \in 1 .. Len(loops) :
                     Active(loops[i]) /\ ~loops[i].stopped

\* the first half of C29 alone
C29_NothingAfterStop == \A i \in 1 .. Len(loops) : ~loops[i].afterStop

\* the second half of C29 for one loop that was never stopped
C29_IsPollingWhileOneLoop ==
  (Len(loops) = 1 /\ ~loops[1].stopped) => (isPolling <=> Active(loops[1]))

\* a call of initialize or verifyToken is still awaiting a response
AuthPending == \E i \in 1 .. Len(authCalls) : authCalls[i].pc # "done"

LogoutCalled == \E i \in 1 .. Len(authCalls) : authCalls[i].fn = "logout"

\* C30: in every reachable state of the auth store, whatever the order of
\* initialize, verifyToken, logout and the responses of their requests,
\* isAuthenticated is true exactly when user is not null, and when
\* isAuthenticated is true localStorage holds a token.
C30_AuthConsistent ==
  /\ isAuthenticated <=> user # NoUser
  /\ isAuthenticated => localStorage # NoToken

\* the first half of C30 where logout is never called
C30_AuthenticatedIffUserWithoutLogout ==
  ~LogoutCalled => (isAuthenticated <=> user # NoUser)

\* the second half of C30 where logout is never called
C30_TokenStoredWithoutLogout ==
  ~LogoutCalled => (isAuthenticated => localStorage # NoToken)

\* one direction of the first half: an authenticated store has a user
C30_AuthenticatedHasUser == isAuthenticated => user # NoUser

====
